---------------------------- MODULE Spec2Model ----------------------------
(***************************************************************************)
(* Meshtastic <-> Discord bridge: the orchestrator (main.py), the device   *)
(* client (meshtastic_client.py) and the cross-runtime bridge              *)
(* (message_handler.py) as one state machine.                              *)
(*                                                                         *)
(* Two execution contexts are interleaved: the worker thread running       *)
(* run_meshtastic, and the asyncio event loop running start(), shutdown()  *)
(* tasks, scheduled delivery tasks and the command callbacks.  Coroutines  *)
(* on the loop interleave with each other only at an await; the worker     *)
(* interleaves with everything.                                            *)
(***************************************************************************)
EXTENDS Integers, Sequences, FiniteSets, TLC

\* ------------------------------------------------------------------ bounds
\* Number of MeshtasticClient objects the worker may construct in a run.
MaxAttempts == 3
\* Number of packets the device link delivers in a run.
MaxPackets == 2
\* Number of shutdown signals (SIGINT/SIGTERM) delivered in a run.
MaxSignals == 1
\* Length up to which every node list is tried.
MaxNodes == 3
\* Times one packet is classified, and seconds the clock moves meanwhile.
MaxCalls == 2
MaxTicks == 1

\* ------------------------------------------------------ program constants
\* main.py:69  max_wait = 30
max_wait == 30
\* discord_client.py:146  if len(message) > 240
max_len == 240
\* discord_client.py:201  sorted_nodes[:25]
max_shown == 25
\* config.py:29, 70  the default reconnect delay, in seconds
default_delay == 5
\* config.py:66  if self.reconnect_delay < 1
min_delay == 1
\* discord_client.py:196  x.get('snr', -999)
snr_default == 0 - 999

Clients == 1..MaxAttempts
Signals == 1..MaxSignals
\* shutdown() invocations: one task per signal (main.py:227), the call in
\* start()'s except clause (main.py:97), the call in main()'s except clause
\* (main.py:239).
ExcId == MaxSignals + 1
MainId == MaxSignals + 2
ShutdownIds == 1..(MaxSignals + 2)

VARIABLES
    running,        \* MeshtasticDiscordBridge.running
    loop,           \* MessageHandler.loop is set
    ready,          \* DiscordClient.ready and target_channel is not None
    botClosed,      \* DiscordClient.stop() has closed the bot
    callbacksSet,   \* DiscordClient.*_callback are set
    spc,            \* position of main()/start()
    waited,         \* start(): waited
    sh,             \* position of each shutdown() invocation
    shTarget,       \* the client object a shutdown() is disconnecting
    loopOwner,      \* shutdown() invocation running between two awaits, or 0
    wpc,            \* position of run_meshtastic
    exiting,        \* run_meshtastic took the break at main.py:153
    client,         \* MeshtasticDiscordBridge.meshtastic_client (0 = None)
    connected,      \* MeshtasticClient.connected, per client object
    iface,          \* MeshtasticClient.interface, per client object
    subs,           \* client objects whose _on_receive is subscribed
    linkUp,         \* the serial device is present and answering
    queue,          \* coroutines handed to the event loop, oldest first
    pkts,           \* packets delivered so far
    packetLog,      \* what became of the last two delivered packets, older
                    \* first
    packet,         \* the packet _process_packet is given
    nodeNames,      \* the interface's node database, by key
    now,            \* int(time.time())
    classified,     \* what _process_packet returned for the packet, call by
                    \* call
    started,        \* per caller, the number of its last task the loop started
    chatUp,         \* the chat platform accepts the bot's sends
    nUnsent,        \* delivery tasks that ended without a send
    cmd,            \* the chat command being served, or served last
    cChannel,       \* the channel that command was issued in
    cReplies,       \* replies (ctx.send) that command has made
    cpc,            \* position of that command's callback
    cClient,        \* the client object the callback called into
    cLen,           \* length of the message of a send command
    cResult,        \* what the device-side callback gave the command
    cDev,           \* device-link primitives the command has called
    shown,          \* the nodes the command presented, by position in the
                    \* list it was given
    nodeCache,      \* the interface's node database, as a list
    nFailed,        \* attempts that failed (connect() returned False) or were
                    \* lost (the polling loop ended with the flag true)
    nNotices,       \* error notices handed to the event loop
    nDropped,       \* schedule calls that found no event loop
    nEnded,         \* attempts that ended in failure, loss or exception
                    \* before the flag was first cleared
    nBackoff,       \* backoff sleeps completed before the flag was first
                    \* cleared
    backoffDue,     \* "due" from the end of an attempt until the backoff sleep
    everCleared,    \* shutdown() has cleared the flag at least once
    readySeen,      \* start() saw is_ready() before spawning the worker
    envDelay,       \* RECONNECT_DELAY of the environment: <<>> when unset,
                    \* <<v>> when set to the integer v
    reconnect_delay, \* Config.reconnect_delay
    shutSaw         \* the client the last shutdown() found in the bridge when
                    \* it came to disconnect it (0 = none, or no shutdown yet)

vars == <<running, loop, ready, botClosed, callbacksSet, spc, waited, sh,
          shTarget, loopOwner, wpc, exiting, client, connected, iface, subs,
          linkUp, queue, pkts, packetLog, packet, nodeNames, now, classified,
          started, chatUp, nUnsent,
          cmd, cChannel, cReplies, cpc, cClient, cLen, cResult, cDev, shown,
          nodeCache, nFailed,
          nNotices, nDropped,
          nEnded, nBackoff, backoffDue, everCleared, readySeen, envDelay,
          reconnect_delay, shutSaw>>

orchVars == <<running, loop, ready, botClosed, callbacksSet, spc, waited, sh,
              shTarget, loopOwner>>
workerVars == <<wpc, exiting, client>>
connVars == <<connected, iface>>
bridgeVars == <<queue, nNotices, nDropped, started, chatUp, nUnsent>>
classifyVars == <<packet, nodeNames, now, classified>>
packetVars == <<pkts, packetLog, classifyVars>>
cmdVars == <<cmd, cChannel, cReplies, cpc, cClient, cLen, cResult, cDev,
             shown, nodeCache>>
configVars == <<envDelay, reconnect_delay>>
histVars == <<nFailed, nEnded, nBackoff, backoffDue, everCleared,
              readySeen, configVars, shutSaw>>

\* ------------------------------------------------------------- helpers

\* MeshtasticClient.is_connected
IsConnected(c) ==
    connected[c] /\ iface[c] # "none"

\* main.py:112/118/124  self.meshtastic_client and self.meshtastic_client.is_connected()
LinkAvailable ==
    client # 0 /\ IsConnected(client)

\* The process is alive: main() has neither returned nor called sys.exit.
\* The worker is a daemon thread (main.py:179) and ends with the process.
ProcessAlive ==
    spc \notin {"returned", "exited"}

\* main() has called start() (main.py:233).
Started ==
    spc \notin {"load_config", "new"}

\* The event loop is free to run a step of another coroutine.
LoopFree ==
    ProcessAlive /\ Started /\ loopOwner = 0 /\ cpc = "idle"

\* Who calls the handler: the worker thread (send_error_to_discord, caller 0)
\* and the _on_receive of each client object (handle_message, caller c).
WorkerId == 0
Callers == {WorkerId} \cup Clients

\* A coroutine handed to the handler: the n-th call of caller by.
Task(by, n, kind) ==
    [by |-> by, n |-> n, kind |-> kind]

\* Faulty variant of ScheduleQueue: the task is handed over without looking
\* at the loop handle.
ScheduleQueueUnchecked(q, t) ==
    Append(q, t)

\* MessageHandler._schedule_discord_task: the queue after scheduling task t.
ScheduleQueue(q, t) ==
    IF loop THEN Append(q, t) ELSE q

\* ConnectionState of the spec, read off the client the bridge holds.
PollPcs == {"poll", "poll_sleep"}
ConnectPcs == {"connect_sub", "connect_open"}

ConnState ==
    IF wpc \in ConnectPcs THEN "Connecting"
    ELSE IF LinkAvailable THEN "Connected"
    ELSE "Disconnected"

\* ----------------------------------------------------- _process_packet

\* The sender every packet below is from, and the time the run starts at.
SenderId == "!a1b2"
SenderNum == 7
Epoch == 1700000000
\* packet.get('rxTime', ...) of a packet without the key.
NoRxTime == 0 - 1

\* A text of the given length; NoText is a decoded payload without 'text'.
Str(n) == [len |-> n]
NoText == [len |-> 0 - 1]
Texts == {NoText, Str(0), Str(5), Str(max_len), Str(max_len + 1), Str(1000)}

\* The five fields _process_packet reads from deviceMetrics, and one it
\* does not (any other key of the dict).
Metrics ==
    {"batteryLevel", "voltage", "channelUtilization", "airUtilTx",
     "uptimeSeconds"}
OtherField == "other"

\* decoded['telemetry']['deviceMetrics']: no telemetry key, no
\* deviceMetrics key, or a dict with the given keys.
Dm(kind, fields) == [kind |-> kind, fields |-> fields]
DeviceMetrics ==
    {Dm("no_telemetry", {}), Dm("no_device_metrics", {})}
        \cup {Dm("dict", F) : F \in SUBSET (Metrics \cup {OtherField})}

Portnums ==
    {"TEXT_MESSAGE_APP", "TELEMETRY_APP", "NODEINFO_APP", "POSITION_APP",
     "ROUTING_APP", "absent"}

Pkt(decoded, portnum, fromId, from, text, dm, rxTime) ==
    [decoded |-> decoded, portnum |-> portnum, fromId |-> fromId,
     from |-> from, text |-> text, dm |-> dm, rxTime |-> rxTime]

NoPacket ==
    Pkt("absent", "absent", "absent", 0, NoText, Dm("no_telemetry", {}),
        NoRxTime)

\* Packets without 'decoded', with a decoded that is no dict, and with a
\* decoded dict of every portnum; text and deviceMetrics vary where
\* _process_packet reads them.
Headers ==
    {<<i, n, r>> : i \in {"absent", SenderId}, n \in {0, SenderNum},
                   r \in {NoRxTime, Epoch - 60}}

Packets ==
    {Pkt(d, "absent", h[1], h[2], NoText, Dm("no_telemetry", {}), h[3]) :
        d \in {"absent", "malformed"}, h \in Headers}
    \cup
    {Pkt("dict", k, h[1], h[2], NoText, Dm("no_telemetry", {}), h[3]) :
        k \in Portnums \ {"TEXT_MESSAGE_APP", "TELEMETRY_APP"}, h \in Headers}
    \cup
    {Pkt("dict", "TEXT_MESSAGE_APP", h[1], h[2], t, Dm("no_telemetry", {}),
         h[3]) : t \in Texts, h \in Headers}
    \cup
    {Pkt("dict", "TELEMETRY_APP", h[1], h[2], NoText, m, h[3]) :
        m \in DeviceMetrics, h \in Headers}

\* A node record: none under the key, an empty dict, a dict without
\* 'user', or one whose user has the given longName and shortName
\* ("absent" for a missing key, "" for an empty string).
Entry(kind, long, short) == [kind |-> kind, long |-> long, short |-> short]
NoEntry == Entry("absent", "absent", "absent")
EntriesById ==
    {NoEntry, Entry("empty", "absent", "absent"),
     Entry("no_user", "absent", "absent")}
        \cup {Entry("user", ln, sn) : ln \in {"absent", "", "Alice Base"},
                                      sn \in {"absent", "", "ALB"}}
EntriesByNum ==
    {NoEntry, Entry("no_user", "absent", "absent"),
     Entry("user", "Node Seven", "N7"), Entry("user", "absent", "N7"),
     Entry("user", "absent", "absent")}

\* interface.nodes: a dict with a record under the sender's id string
\* and/or number, or something that is no dict (ok = FALSE).
Names(ok, byId, byNum) == [ok |-> ok, byId |-> byId, byNum |-> byNum]
NoNames == Names(TRUE, NoEntry, NoEntry)
NameCaches ==
    {Names(TRUE, a, b) : a \in EntriesById, b \in EntriesByNum}
        \cup {Names(FALSE, NoEntry, NoEntry)}

\* Python truth of a record and of a name.
TruthyEntry(e) == e.kind \in {"no_user", "user"}
TruthyName(v) == v \notin {"absent", ""}

\* meshtastic_client.py:105  packet.get('fromId', 'Unknown')
RawId(p) ==
    IF p.fromId = "absent" THEN "Unknown" ELSE p.fromId

\* meshtastic_client.py:116  nodes.get(from_id) or nodes.get(from_num)
LookupNode(p, names) ==
    LET byId == IF p.fromId = SenderId THEN names.byId ELSE NoEntry
        byNum == IF p.from = SenderNum THEN names.byNum ELSE NoEntry
    IN  IF TruthyEntry(byId) THEN byId ELSE byNum

\* Faulty variant of FromName: the record is used whether or not it has
\* a name.
FromNameUnchecked(p, hasIface, names) ==
    IF ~hasIface \/ p.from = 0 THEN RawId(p)
    ELSE IF ~names.ok THEN RawId(p)
    ELSE LET node == LookupNode(p, names)
         IN  IF ~TruthyEntry(node) \/ node.kind # "user" THEN RawId(p)
             ELSE node.long

\* meshtastic_client.py:110-125  the friendly name of the sender.
FromName(p, hasIface, names) ==
    IF ~hasIface \/ p.from = 0 THEN RawId(p)
    ELSE IF ~names.ok THEN RawId(p)
    ELSE LET node == LookupNode(p, names)
         IN  IF ~TruthyEntry(node) \/ node.kind # "user" THEN RawId(p)
             ELSE IF TruthyName(node.long) THEN node.long
             ELSE IF TruthyName(node.short) THEN node.short
             ELSE RawId(p)

\* What _process_packet returns.
Nothing == [type |-> "none"]
DirectMessage(name, num, text, ts) ==
    [type |-> "direct_message", from_id |-> name, from_num |-> num,
     text |-> text, timestamp |-> ts]
Telemetry(name, num, present, ts) ==
    [type |-> "telemetry", from_id |-> name, from_num |-> num,
     present |-> present, timestamp |-> ts]

\* meshtastic_client.py:128  packet.get('rxTime', int(time.time()))
RxTime(p, t) ==
    IF p.rxTime = NoRxTime THEN t ELSE p.rxTime

\* Faulty variant of TextOf: the text is cut at the outbound limit.
TextOfTruncated(p) ==
    IF p.text = NoText THEN Str(0)
    ELSE IF p.text.len > max_len THEN Str(max_len)
    ELSE p.text

\* meshtastic_client.py:132  decoded.get('text', '')
TextOf(p) ==
    IF p.text = NoText THEN Str(0) ELSE p.text

\* Faulty variant of Handled: position updates are forwarded as text.
HandledWithPosition(portnum) ==
    IF portnum \in {"TEXT_MESSAGE_APP", "POSITION_APP"} THEN "text"
    ELSE IF portnum = "TELEMETRY_APP" THEN "telemetry"
    ELSE "none"

\* meshtastic_client.py:131, 145, 167, 172, 177  the branch taken for a
\* portnum.
Handled(portnum) ==
    IF portnum = "TEXT_MESSAGE_APP" THEN "text"
    ELSE IF portnum = "TELEMETRY_APP" THEN "telemetry"
    ELSE "none"

\* meshtastic_client.py:86-183  _process_packet at time t, for a client
\* whose interface is set or not.
Classify(p, hasIface, names, t) ==
    IF p.decoded # "dict" THEN Nothing
    ELSE IF Handled(p.portnum) = "text"
        THEN DirectMessage(FromName(p, hasIface, names), p.from, TextOf(p),
                           RxTime(p, t))
    ELSE IF Handled(p.portnum) = "telemetry"
        THEN IF p.dm.kind = "dict" /\ p.dm.fields # {}
             THEN Telemetry(FromName(p, hasIface, names), p.from,
                            p.dm.fields \cap Metrics, RxTime(p, t))
             ELSE Nothing
    ELSE Nothing

\* meshtastic_client.py:66-84 -> message_handler.py:32-65  the client's
\* _on_receive is given the packet: it classifies it and hands a message
\* to the handler.
OnReceive ==
    /\ ProcessAlive /\ client # 0
    /\ Len(classified) < MaxCalls
    /\ LET m == Classify(packet, iface[client] # "none", nodeNames, now)
       IN  /\ classified' = Append(classified, m)
           /\ queue' = IF m = Nothing THEN queue
                       ELSE ScheduleQueue(queue,
                                Task(client, Len(classified) + 1, "message"))
           /\ nDropped' = IF m = Nothing \/ loop THEN nDropped
                          ELSE nDropped + 1
    /\ UNCHANGED <<pkts, packetLog, packet, nodeNames, now>>
    /\ UNCHANGED <<nNotices, started, chatUp, nUnsent>>
    /\ UNCHANGED <<orchVars, workerVars, connVars, subs, linkUp, cmdVars,
                   histVars>>

\* A second passes.
ClockTick ==
    /\ ProcessAlive
    /\ now < Epoch + MaxTicks
    /\ now' = now + 1
    /\ UNCHANGED <<pkts, packetLog, packet, nodeNames, classified>>
    /\ UNCHANGED <<orchVars, workerVars, connVars, subs, linkUp, bridgeVars,
                   cmdVars, histVars>>

\* ------------------------------------------------------------- config.py

\* Values RECONNECT_DELAY may be set to.
EnvDelays ==
    {<<>>} \cup {<<v>> : v \in {0 - 1000000, 0 - 1, 0, 1, 2, 5, 86400}}

\* Faulty variant of LoadedDelay: only a negative delay is replaced.
LoadedDelayAllowsZero(env) ==
    LET asked == IF env = <<>> THEN default_delay ELSE env[1]
    IN  IF asked < 0 THEN default_delay ELSE asked

\* config.py:29, 66-70  int(os.getenv("RECONNECT_DELAY", "5")), replaced by
\* 5 when below 1.
LoadedDelay(env) ==
    LET asked == IF env = <<>> THEN default_delay ELSE env[1]
    IN  IF asked < min_delay THEN default_delay ELSE asked

\* main.py:211 -> config.py:18-32  main() loads the configuration before it
\* constructs the bridge.
MainLoadConfig ==
    /\ spc = "load_config"
    /\ reconnect_delay' = LoadedDelay(envDelay)
    /\ spc' = "new"
    /\ UNCHANGED <<running, loop, ready, botClosed, callbacksSet, waited, sh,
                   shTarget, loopOwner>>
    /\ UNCHANGED <<workerVars, connVars, subs, linkUp, bridgeVars, packetVars,
                   cmdVars>>
    /\ UNCHANGED <<nFailed, nEnded, nBackoff, backoffDue, everCleared,
                   readySeen, envDelay, shutSaw>>

Init ==
    /\ running = TRUE
    /\ loop = FALSE
    /\ ready = FALSE
    /\ botClosed = FALSE
    /\ callbacksSet = FALSE
    /\ spc = "new"
    /\ waited = 0
    /\ sh = [s \in ShutdownIds |-> "idle"]
    /\ shTarget = [s \in ShutdownIds |-> 0]
    /\ loopOwner = 0
    /\ wpc = "idle"
    /\ exiting = FALSE
    /\ client = 0
    /\ connected = [c \in Clients |-> FALSE]
    /\ iface = [c \in Clients |-> "none"]
    /\ subs = {}
    /\ linkUp \in BOOLEAN
    /\ queue = <<>>
    /\ pkts = 0
    /\ packetLog = <<>>
    /\ packet = NoPacket
    /\ nodeNames = NoNames
    /\ now = Epoch
    /\ classified = <<>>
    /\ started = [c \in Callers |-> 0]
    /\ chatUp = TRUE
    /\ nUnsent = 0
    /\ cmd = "none"
    /\ cChannel = "none"
    /\ cReplies = 0
    /\ cpc = "idle"
    /\ cClient = 0
    /\ cLen = 0
    /\ cResult = "none"
    /\ cDev = 0
    /\ shown = <<>>
    /\ nodeCache = <<>>
    /\ nFailed = 0
    /\ nNotices = 0
    /\ nDropped = 0
    /\ nEnded = 0
    /\ nBackoff = 0
    /\ backoffDue = "no"
    /\ everCleared = FALSE
    /\ readySeen = FALSE
    /\ envDelay = <<>>
    /\ reconnect_delay = default_delay
    /\ shutSaw = 0


\* ------------------------------------------------- chat client (external)

\* discord_client.py:273-296  on_ready: the target channel is found (ready =
\* True) or not (ready = False).  It runs on the event loop once the bot
\* task exists.
DiscordOnReady ==
    /\ LoopFree /\ ~botClosed
    /\ ~ready
    /\ \E found \in BOOLEAN : ready' = found
    /\ UNCHANGED <<running, loop, botClosed, callbacksSet, spc, waited, sh,
                   shTarget, loopOwner>>
    /\ UNCHANGED <<workerVars, connVars, subs, linkUp, bridgeVars, packetVars,
                   cmdVars, histVars>>

\* discord_client.py:273-296  on_ready fires again after the gateway
\* session was re-established: the target channel is looked up anew and
\* ready becomes False when it is no longer found.
DiscordOnReadyAgain ==
    /\ LoopFree /\ ~botClosed
    /\ ready
    /\ \E found \in BOOLEAN : ready' = found
    /\ UNCHANGED <<running, loop, botClosed, callbacksSet, spc, waited, sh,
                   shTarget, loopOwner>>
    /\ UNCHANGED <<workerVars, connVars, subs, linkUp, bridgeVars, packetVars,
                   cmdVars, histVars>>

\* ------------------------------------------------------ start() / main()

\* main.py:52-65  clients and handler are created, the handler gets the
\* running loop, the bot task is created; start() then enters the wait loop.
StartInit ==
    /\ spc = "new"
    /\ spc' = "wait"
    /\ loop' = TRUE
    /\ UNCHANGED <<running, ready, botClosed, callbacksSet, waited, sh,
                   shTarget, loopOwner>>
    /\ UNCHANGED <<workerVars, connVars, subs, linkUp, bridgeVars, packetVars,
                   cmdVars, histVars>>

\* main.py:71-73  one poll of the bounded wait.
StartWaitPoll ==
    /\ LoopFree /\ spc = "wait"
    /\ ~ready /\ waited < max_wait
    /\ waited' = waited + 1
    /\ UNCHANGED <<running, loop, ready, botClosed, callbacksSet, spc, sh,
                   shTarget, loopOwner>>
    /\ UNCHANGED <<workerVars, connVars, subs, linkUp, bridgeVars, packetVars,
                   cmdVars, histVars>>

\* Faulty variant of StartSpawnWorker: the worker thread is started without
\* waiting for the bot to be ready.
StartSpawnWorkerEarly ==
    /\ LoopFree /\ spc = "wait"
    /\ spc' = "sleep2"
    /\ wpc' = "loop_test"
    /\ readySeen' = ready
    /\ UNCHANGED <<configVars, shutSaw>>
    /\ waited' = 0
    /\ UNCHANGED <<running, loop, ready, botClosed, callbacksSet, sh,
                   shTarget, loopOwner>>
    /\ UNCHANGED <<exiting, client, connVars, subs, linkUp, bridgeVars,
                   packetVars, cmdVars, nFailed, nEnded, nBackoff, backoffDue,
                   everCleared>>

\* main.py:71, 75-84  the bot is ready: the worker thread is started and
\* start() awaits sleep(2).  The local counter of the wait loop is not read
\* again once the loop is left with the bot ready.
StartSpawnWorker ==
    /\ LoopFree /\ spc = "wait"
    /\ ready
    /\ spc' = "sleep2"
    /\ wpc' = "loop_test"
    /\ readySeen' = ready
    /\ UNCHANGED <<configVars, shutSaw>>
    /\ waited' = 0
    /\ UNCHANGED <<running, loop, ready, botClosed, callbacksSet, sh,
                   shTarget, loopOwner>>
    /\ UNCHANGED <<exiting, client, connVars, subs, linkUp, bridgeVars,
                   packetVars, cmdVars, nFailed, nEnded, nBackoff, backoffDue,
                   everCleared>>

\* Faulty variant of StartTimeout: the worker thread is started before the
\* readiness check raises.
StartTimeoutAfterSpawn ==
    /\ LoopFree /\ spc = "wait"
    /\ ~ready /\ waited >= max_wait
    /\ spc' = "except"
    /\ wpc' = "loop_test"
    /\ sh' = [sh EXCEPT ![ExcId] = "pending"]
    /\ UNCHANGED <<running, loop, ready, botClosed, callbacksSet, waited,
                   shTarget, loopOwner>>
    /\ UNCHANGED <<exiting, client, connVars, subs, linkUp, bridgeVars,
                   packetVars, cmdVars, histVars>>

\* main.py:71, 75-76, 95-97  the wait is exhausted: RuntimeError, caught by
\* start()'s except clause, which calls shutdown().
StartTimeout ==
    /\ LoopFree /\ spc = "wait"
    /\ ~ready /\ waited >= max_wait
    /\ spc' = "except"
    /\ sh' = [sh EXCEPT ![ExcId] = "pending"]
    /\ UNCHANGED <<running, loop, ready, botClosed, callbacksSet, waited,
                   shTarget, loopOwner>>
    /\ UNCHANGED <<workerVars, connVars, subs, linkUp, bridgeVars, packetVars,
                   cmdVars, histVars>>

\* main.py:87-93  after sleep(2): callbacks are set, the flag is written
\* True, and run_forever starts polling the flag.
StartSetRunning ==
    /\ LoopFree /\ spc = "sleep2"
    /\ callbacksSet' = TRUE
    /\ running' = TRUE
    /\ spc' = "run_forever"
    /\ UNCHANGED <<loop, ready, botClosed, waited, sh, shTarget, loopOwner>>
    /\ UNCHANGED <<workerVars, connVars, subs, linkUp, bridgeVars, packetVars,
                   cmdVars, histVars>>

\* main.py:186, 232-233  run_forever sees the flag false; start() and main()
\* return and the process ends.
RunForeverExit ==
    /\ LoopFree /\ spc = "run_forever"
    /\ ~running
    /\ spc' = "returned"
    /\ UNCHANGED <<running, loop, ready, botClosed, callbacksSet, waited, sh,
                   shTarget, loopOwner>>
    /\ UNCHANGED <<workerVars, connVars, subs, linkUp, bridgeVars, packetVars,
                   cmdVars, histVars>>

\* main.py:98, 237-239  start() re-raises once its shutdown() is done; main()
\* catches it and calls shutdown() again.
MainCatch ==
    /\ LoopFree /\ spc = "except"
    /\ sh[ExcId] = "done"
    /\ spc' = "main_except"
    /\ sh' = [sh EXCEPT ![MainId] = "pending"]
    /\ UNCHANGED <<running, loop, ready, botClosed, callbacksSet, waited,
                   shTarget, loopOwner>>
    /\ UNCHANGED <<workerVars, connVars, subs, linkUp, bridgeVars, packetVars,
                   cmdVars, histVars>>

\* main.py:240  sys.exit(1)
MainExit ==
    /\ LoopFree /\ spc = "main_except"
    /\ sh[MainId] = "done"
    /\ spc' = "exited"
    /\ UNCHANGED <<running, loop, ready, botClosed, callbacksSet, waited, sh,
                   shTarget, loopOwner>>
    /\ UNCHANGED <<workerVars, connVars, subs, linkUp, bridgeVars, packetVars,
                   cmdVars, histVars>>

\* ----------------------------------------------------------- shutdown()

\* main.py:224-227  a signal arrives; the handler creates a shutdown() task.
SignalHandler ==
    /\ ProcessAlive /\ Started
    /\ \E s \in Signals :
        /\ sh[s] = "idle"
        /\ sh' = [sh EXCEPT ![s] = "pending"]
    /\ UNCHANGED <<running, loop, ready, botClosed, callbacksSet, spc, waited,
                   shTarget, loopOwner>>
    /\ UNCHANGED <<workerVars, connVars, subs, linkUp, bridgeVars, packetVars,
                   cmdVars, histVars>>

\* meshtastic_client.py:188-190, 192  disconnect(), first half: with an
\* interface, close() it; without one, only clear the connected flag.
DisconnectCheckIface(c) ==
    IF iface[c] # "none" THEN [iface EXCEPT ![c] = "closed"] ELSE iface

DisconnectCheckConnected(c) ==
    IF iface[c] # "none" THEN connected ELSE [connected EXCEPT ![c] = FALSE]

\* meshtastic_client.py:191-192  disconnect(), second half.
DisconnectClearIface(c) ==
    [iface EXCEPT ![c] = "none"]

DisconnectClearConnected(c) ==
    [connected EXCEPT ![c] = FALSE]

\* main.py:195  the event loop runs a shutdown() up to self.running = False.
ShutdownClearFlag ==
    /\ LoopFree
    /\ \E s \in ShutdownIds :
        /\ sh[s] = "pending"
        /\ sh' = [sh EXCEPT ![s] = "disc"]
        /\ loopOwner' = s
    /\ running' = FALSE
    /\ everCleared' = TRUE
    /\ backoffDue' = IF backoffDue = "due" THEN "waived" ELSE backoffDue
    /\ UNCHANGED <<loop, ready, botClosed, callbacksSet, spc, waited,
                   shTarget>>
    /\ UNCHANGED <<workerVars, connVars, subs, linkUp, bridgeVars, packetVars,
                   cmdVars, nFailed, nEnded, nBackoff, readySeen, configVars,
                   shutSaw>>

\* main.py:198-199 -> meshtastic_client.py:188-190, 192  with a client,
\* disconnect() is called on it; with none, shutdown() goes on to the await
\* at main.py:203.
ShutdownDisconnectCheck ==
    /\ ProcessAlive
    /\ \E s \in ShutdownIds :
        /\ sh[s] = "disc" /\ loopOwner = s
        /\ IF client # 0 /\ iface[client] # "none"
             THEN /\ iface' = DisconnectCheckIface(client)
                  /\ connected' = DisconnectCheckConnected(client)
                  /\ sh' = [sh EXCEPT ![s] = "disc_clear"]
                  /\ shTarget' = [shTarget EXCEPT ![s] = client]
                  /\ loopOwner' = loopOwner
             ELSE /\ iface' = IF client # 0 THEN DisconnectCheckIface(client)
                               ELSE iface
                  /\ connected' = IF client # 0
                                    THEN DisconnectCheckConnected(client)
                                    ELSE connected
                  /\ sh' = [sh EXCEPT ![s] = "stop"]
                  /\ shTarget' = shTarget
                  /\ loopOwner' = 0
    /\ shutSaw' = client
    /\ UNCHANGED <<running, loop, ready, botClosed, callbacksSet, spc, waited>>
    /\ UNCHANGED <<workerVars, subs, linkUp, bridgeVars, packetVars, cmdVars>>
    /\ UNCHANGED <<nFailed, nEnded, nBackoff, backoffDue, everCleared,
                   readySeen, configVars>>

\* main.py:199 -> meshtastic_client.py:191-192, then the await at main.py:203
ShutdownDisconnectClear ==
    /\ ProcessAlive
    /\ \E s \in ShutdownIds :
        /\ sh[s] = "disc_clear" /\ loopOwner = s
        /\ iface' = DisconnectClearIface(shTarget[s])
        /\ connected' = DisconnectClearConnected(shTarget[s])
        /\ sh' = [sh EXCEPT ![s] = "stop"]
        /\ shTarget' = [shTarget EXCEPT ![s] = 0]
    /\ loopOwner' = 0
    /\ UNCHANGED <<running, loop, ready, botClosed, callbacksSet, spc, waited>>
    /\ UNCHANGED <<workerVars, subs, linkUp, bridgeVars, packetVars, cmdVars,
                   histVars>>

\* main.py:202-205 -> discord_client.py:315-332  the bot is closed.
ShutdownStopDiscord ==
    /\ LoopFree
    /\ \E s \in ShutdownIds :
        /\ sh[s] = "stop"
        /\ sh' = [sh EXCEPT ![s] = "done"]
    /\ botClosed' = TRUE
    /\ UNCHANGED <<running, loop, ready, callbacksSet, spc, waited, shTarget,
                   loopOwner>>
    /\ UNCHANGED <<workerVars, connVars, subs, linkUp, bridgeVars, packetVars,
                   cmdVars, histVars>>

\* ------------------------------------------------------- run_meshtastic

\* Faulty variant of WorkerLoopTest: the loop gives up after a failure.
WorkerLoopTestGivesUp ==
    /\ ProcessAlive /\ wpc = "loop_test"
    /\ wpc' = IF running /\ nFailed = 0 THEN "create" ELSE "done"
    /\ UNCHANGED <<exiting, client>>
    /\ UNCHANGED <<orchVars, connVars, subs, linkUp, bridgeVars, packetVars,
                   cmdVars, histVars>>

\* main.py:132  while self.running
WorkerLoopTest ==
    /\ ProcessAlive /\ wpc = "loop_test"
    /\ wpc' = IF running THEN "create" ELSE "done"
    /\ UNCHANGED <<exiting, client>>
    /\ UNCHANGED <<orchVars, connVars, subs, linkUp, bridgeVars, packetVars,
                   cmdVars, histVars>>

\* main.py:135-138  a new MeshtasticClient replaces the bridge's client.
WorkerCreateClient ==
    /\ ProcessAlive /\ wpc = "create"
    /\ client < MaxAttempts
    /\ client' = client + 1
    /\ wpc' = "connect_sub"
    /\ UNCHANGED exiting
    /\ UNCHANGED <<orchVars, connVars, subs, linkUp, bridgeVars, packetVars,
                   cmdVars, histVars>>

\* The counters of attempts and backoff sleeps stop at the first shutdown.
CountUntilCleared(n) ==
    IF everCleared THEN n ELSE n + 1

\* What the end of an attempt (failed, lost or raised) asks of the backoff.
DueIfRunning ==
    IF running THEN "due" ELSE "waived"

\* main.py:142-146, 167-168  an exception escapes the attempt after connect()
\* returned True; the except clause logs it and the finally clause follows.
WorkerRaise ==
    /\ ProcessAlive /\ wpc = "setup_cb"
    /\ wpc' = "fin_check"
    /\ nEnded' = CountUntilCleared(nEnded)
    /\ backoffDue' = DueIfRunning
    /\ UNCHANGED <<exiting, client>>
    /\ UNCHANGED <<orchVars, connVars, subs, linkUp, bridgeVars, packetVars,
                   cmdVars, nFailed, nBackoff, everCleared, readySeen,
                   configVars, shutSaw>>

\* meshtastic_client.py:43  pub.subscribe(self._on_receive, ...)
ConnectSubscribe ==
    /\ ProcessAlive /\ wpc = "connect_sub"
    /\ subs' = subs \cup {client}
    /\ wpc' = "connect_open"
    /\ UNCHANGED <<exiting, client>>
    /\ UNCHANGED <<orchVars, connVars, linkUp, bridgeVars, packetVars, cmdVars,
                   histVars>>

\* meshtastic_client.py:46-59  the interface opens; connect() returns True.
ConnectSucceed ==
    /\ ProcessAlive /\ wpc = "connect_open"
    /\ linkUp
    /\ iface' = [iface EXCEPT ![client] = "open"]
    /\ connected' = [connected EXCEPT ![client] = TRUE]
    /\ wpc' = "setup_cb"
    /\ UNCHANGED <<exiting, client>>
    /\ UNCHANGED <<orchVars, subs, linkUp, bridgeVars, packetVars, cmdVars,
                   histVars>>

\* meshtastic_client.py:46-49, 61-64  SerialInterface raises (with or without
\* a device); connect() returns False.  meshtastic_client.py:55, 61-64: or
\* the interface opens and getMyNodeInfo raises, which leaves the interface
\* set and connected False.
ConnectFail ==
    /\ ProcessAlive /\ wpc = "connect_open"
    /\ \E opened \in {FALSE, linkUp} :
        iface' = IF opened THEN [iface EXCEPT ![client] = "open"] ELSE iface
    /\ connected' = [connected EXCEPT ![client] = FALSE]
    /\ nFailed' = nFailed + 1
    /\ wpc' = "notify"
    /\ UNCHANGED <<exiting, client>>
    /\ UNCHANGED <<orchVars, subs, linkUp, bridgeVars, packetVars, cmdVars,
                   nEnded, nBackoff, backoffDue, everCleared, readySeen,
                   configVars, shutSaw>>

\* main.py:145-146  callbacks are (re)registered when the bot is ready.
WorkerSetupCallbacks ==
    /\ ProcessAlive /\ wpc = "setup_cb"
    /\ callbacksSet' = (callbacksSet \/ ready)
    /\ wpc' = "poll"
    /\ UNCHANGED <<exiting, client>>
    /\ UNCHANGED <<running, loop, ready, botClosed, spc, waited, sh, shTarget,
                   loopOwner>>
    /\ UNCHANGED <<connVars, subs, linkUp, bridgeVars, packetVars, cmdVars,
                   histVars>>

\* main.py:149  while self.running and self.meshtastic_client.is_connected()
WorkerPollTest ==
    /\ ProcessAlive /\ wpc = "poll"
    /\ wpc' = IF running /\ IsConnected(client) THEN "poll_sleep"
              ELSE "after_poll"
    /\ UNCHANGED <<exiting, client>>
    /\ UNCHANGED <<orchVars, connVars, subs, linkUp, bridgeVars, packetVars,
                   cmdVars, histVars>>

\* main.py:150  time.sleep(1)
WorkerPollSleep ==
    /\ ProcessAlive /\ wpc = "poll_sleep"
    /\ wpc' = "poll"
    /\ UNCHANGED <<exiting, client>>
    /\ UNCHANGED <<orchVars, connVars, subs, linkUp, bridgeVars, packetVars,
                   cmdVars, histVars>>

\* Faulty variant of WorkerAfterPoll: the break leaves the loop without
\* the finally clause.
WorkerAfterPollLeaves ==
    /\ ProcessAlive /\ wpc = "after_poll"
    /\ IF ~running
         THEN /\ exiting' = TRUE
              /\ wpc' = "done"
              /\ nFailed' = nFailed
         ELSE /\ exiting' = exiting
              /\ wpc' = "notify"
              /\ nFailed' = nFailed + 1
    /\ UNCHANGED client
    /\ UNCHANGED <<orchVars, connVars, subs, linkUp, bridgeVars, packetVars,
                   cmdVars, nEnded, nBackoff, backoffDue, everCleared,
                   readySeen, configVars, shutSaw>>

\* main.py:152-153  if not self.running: break (through the finally clause);
\* otherwise the session counts as lost.
WorkerAfterPoll ==
    /\ ProcessAlive /\ wpc = "after_poll"
    /\ IF ~running
         THEN /\ exiting' = TRUE
              /\ wpc' = "fin_check"
              /\ nFailed' = nFailed
         ELSE /\ exiting' = exiting
              /\ wpc' = "notify"
              /\ nFailed' = nFailed + 1
    /\ UNCHANGED client
    /\ UNCHANGED <<orchVars, connVars, subs, linkUp, bridgeVars, packetVars,
                   cmdVars, nEnded, nBackoff, backoffDue, everCleared,
                   readySeen, configVars, shutSaw>>

\* Faulty variant of WorkerNotify: the failure is logged but no notice is
\* scheduled.
WorkerNotifySilent ==
    /\ ProcessAlive /\ wpc = "notify"
    /\ wpc' = "fin_check"
    /\ nEnded' = CountUntilCleared(nEnded)
    /\ backoffDue' = DueIfRunning
    /\ UNCHANGED <<exiting, client>>
    /\ UNCHANGED <<orchVars, connVars, subs, linkUp, bridgeVars, packetVars,
                   cmdVars, nFailed, nBackoff, everCleared, readySeen,
                   configVars, shutSaw>>

\* Faulty variant of WorkerNotify: the worker waits for the result of the
\* scheduled notice before going on.
WorkerNotifyWaits ==
    /\ ProcessAlive /\ wpc = "notify"
    /\ queue' = ScheduleQueue(queue,
                              Task(WorkerId, nNotices + nDropped + 1, "error"))
    /\ nNotices' = IF loop THEN nNotices + 1 ELSE nNotices
    /\ nDropped' = IF loop THEN nDropped ELSE nDropped + 1
    /\ UNCHANGED <<started, chatUp, nUnsent>>
    /\ wpc' = "notify_wait"
    /\ nEnded' = CountUntilCleared(nEnded)
    /\ backoffDue' = DueIfRunning
    /\ UNCHANGED <<exiting, client>>
    /\ UNCHANGED <<orchVars, connVars, subs, linkUp, packetVars, cmdVars,
                   nFailed, nBackoff, everCleared, readySeen, configVars,
                   shutSaw>>

\* main.py:156-165 -> message_handler.py:83-94, 67-81  the error notice is
\* handed to the event loop, or dropped when the handler has no loop.
WorkerNotify ==
    /\ ProcessAlive /\ wpc = "notify"
    /\ queue' = ScheduleQueue(queue,
                              Task(WorkerId, nNotices + nDropped + 1, "error"))
    /\ nNotices' = IF loop THEN nNotices + 1 ELSE nNotices
    /\ nDropped' = IF loop THEN nDropped ELSE nDropped + 1
    /\ UNCHANGED <<started, chatUp, nUnsent>>
    /\ wpc' = "fin_check"
    /\ nEnded' = CountUntilCleared(nEnded)
    /\ backoffDue' = DueIfRunning
    /\ UNCHANGED <<exiting, client>>
    /\ UNCHANGED <<orchVars, connVars, subs, linkUp, packetVars, cmdVars,
                   nFailed, nBackoff, everCleared, readySeen, configVars,
                   shutSaw>>

\* Where the worker goes once the finally clause is done: out of the loop
\* after a break, to main.py:175 otherwise.
AfterFinally ==
    IF exiting THEN "done" ELSE "backoff_test"

\* Faulty variant of WorkerFinallyCheck: the finally clause does not
\* disconnect the client.
WorkerFinallySkips ==
    /\ ProcessAlive /\ wpc = "fin_check"
    /\ wpc' = AfterFinally
    /\ UNCHANGED <<exiting, client>>
    /\ UNCHANGED <<orchVars, connVars, subs, linkUp, bridgeVars, packetVars,
                   cmdVars, histVars>>

\* main.py:171-172 -> meshtastic_client.py:188-190, 192
WorkerFinallyCheck ==
    /\ ProcessAlive /\ wpc = "fin_check"
    /\ IF client = 0
         THEN /\ UNCHANGED connVars
              /\ wpc' = AfterFinally
         ELSE /\ iface' = DisconnectCheckIface(client)
              /\ connected' = DisconnectCheckConnected(client)
              /\ wpc' = IF iface[client] # "none" THEN "fin_clear"
                        ELSE AfterFinally
    /\ UNCHANGED <<exiting, client>>
    /\ UNCHANGED <<orchVars, subs, linkUp, bridgeVars, packetVars, cmdVars,
                   histVars>>

\* main.py:172 -> meshtastic_client.py:191-192
WorkerFinallyClear ==
    /\ ProcessAlive /\ wpc = "fin_clear"
    /\ iface' = DisconnectClearIface(client)
    /\ connected' = DisconnectClearConnected(client)
    /\ wpc' = AfterFinally
    /\ UNCHANGED <<exiting, client>>
    /\ UNCHANGED <<orchVars, subs, linkUp, bridgeVars, packetVars, cmdVars,
                   histVars>>

\* Faulty variant of WorkerBackoffTest: the test of the flag is inverted, so
\* the sleep is skipped while the bridge is running.
WorkerBackoffTestInverted ==
    /\ ProcessAlive /\ wpc = "backoff_test"
    /\ wpc' = IF ~running THEN "backoff_sleep" ELSE "loop_test"
    /\ UNCHANGED <<exiting, client>>
    /\ UNCHANGED <<orchVars, connVars, subs, linkUp, bridgeVars, packetVars,
                   cmdVars, histVars>>

\* main.py:175  if self.running
WorkerBackoffTest ==
    /\ ProcessAlive /\ wpc = "backoff_test"
    /\ wpc' = IF running THEN "backoff_sleep" ELSE "loop_test"
    /\ UNCHANGED <<exiting, client>>
    /\ UNCHANGED <<orchVars, connVars, subs, linkUp, bridgeVars, packetVars,
                   cmdVars, histVars>>

\* main.py:176  time.sleep(self.config.reconnect_delay) has returned, or,
\* given a negative length, has raised ValueError out of the thread.
WorkerBackoffSleep ==
    /\ ProcessAlive /\ wpc = "backoff_sleep"
    /\ wpc' = IF reconnect_delay < 0 THEN "raised" ELSE "loop_test"
    /\ nBackoff' = CountUntilCleared(nBackoff)
    /\ backoffDue' = "no"
    /\ UNCHANGED <<exiting, client>>
    /\ UNCHANGED <<orchVars, connVars, subs, linkUp, bridgeVars, packetVars,
                   cmdVars, nFailed, nEnded, everCleared, readySeen,
                   configVars, shutSaw>>


\* ------------------------------------------------ device link (external)

\* The serial link goes away (unplugged, device reset).  Nothing in the
\* client is told: connected and interface are fields only connect() and
\* disconnect() write (meshtastic_client.py:51, 63, 191-192).
LinkLost ==
    /\ ProcessAlive /\ linkUp
    /\ \E c \in Clients : iface[c] = "open"
    /\ linkUp' = FALSE
    /\ UNCHANGED <<orchVars, workerVars, connVars, subs, bridgeVars,
                   packetVars, cmdVars, histVars>>

\* The serial device is back.
LinkRestored ==
    /\ ProcessAlive /\ ~linkUp
    /\ linkUp' = TRUE
    /\ UNCHANGED <<orchVars, workerVars, connVars, subs, bridgeVars,
                   packetVars, cmdVars, histVars>>

\* The packets an open interface publishes: a text message (or telemetry
\* with device metrics), a packet of a kind the bridge does not forward, a
\* packet whose fields make _process_packet raise.
RawPackets == {"text", "position", "malformed"}

\* What MeshtasticClient._process_packet makes of a packet: a message for the
\* handler (direct_message or telemetry), or "none".
PacketKinds == {"message", "none"}

\* meshtastic_client.py:86-183  _process_packet; an exception inside is
\* caught at lines 181-183 and the result is None.
ProcessPacket(raw) ==
    IF raw = "text" THEN "message" ELSE "none"

RECURSIVE ScheduleEach(_, _, _)
\* message_handler.py:51-59 called once per subscribed client object, in
\* the order the listeners were registered.
ScheduleEach(q, kind, S) ==
    IF S = {} THEN q
    ELSE LET c == CHOOSE x \in S : \A y \in S : x <= y
         IN  ScheduleEach(ScheduleQueue(q, Task(c, pkts + 1, kind)), kind,
                          S \ {c})

\* The log after one more packet.
Record(log, entry) ==
    IF Len(log) < 2 THEN Append(log, entry) ELSE <<log[2], entry>>

\* What the log keeps of a packet: its kind, or "push_error" when the
\* handler call raised (caught at message_handler.py:64-65, 80-81 or
\* meshtastic_client.py:83-84) before anything was handed to the loop.
Logged(raw, pushOk) ==
    IF pushOk THEN raw ELSE "push_error"

\* Faulty variant of DeliverPacket: an exception raised while a packet is
\* classified or pushed escapes _on_receive and takes the session down.
DeliverPacketUncaught ==
    /\ ProcessAlive /\ linkUp
    /\ pkts < MaxPackets
    /\ \E c \in Clients : iface[c] = "open"
    /\ \E raw \in RawPackets, pushOk \in BOOLEAN :
        LET m == ProcessPacket(raw)
            S == IF m = "none" \/ ~pushOk THEN {} ELSE subs
            raised == raw = "malformed" \/ ~pushOk
        IN  /\ m = "none" => pushOk
            /\ queue' = ScheduleEach(queue, m, S)
            /\ nDropped' = IF loop THEN nDropped ELSE nDropped + Cardinality(S)
            /\ packetLog' = Record(packetLog, Logged(raw, pushOk))
            /\ connected' = IF raised THEN [c \in Clients |-> FALSE]
                            ELSE connected
    /\ pkts' = pkts + 1
    /\ UNCHANGED <<nNotices, started, chatUp, nUnsent, iface, cmdVars,
                   classifyVars>>
    /\ UNCHANGED <<orchVars, workerVars, subs, linkUp, histVars>>

\* meshtastic_client.py:66-84 -> message_handler.py:32-65  an open interface
\* publishes one packet on "meshtastic.receive"; every subscribed
\* _on_receive classifies it and hands the message to the handler.
DeliverPacket ==
    /\ ProcessAlive /\ linkUp
    /\ pkts < MaxPackets
    /\ \E c \in Clients : iface[c] = "open"
    /\ \E raw \in RawPackets, pushOk \in BOOLEAN :
        LET m == ProcessPacket(raw)
            S == IF m = "none" \/ ~pushOk THEN {} ELSE subs
        IN  /\ m = "none" => pushOk
            /\ queue' = ScheduleEach(queue, m, S)
            /\ nDropped' = IF loop THEN nDropped ELSE nDropped + Cardinality(S)
            /\ packetLog' = Record(packetLog, Logged(raw, pushOk))
    /\ pkts' = pkts + 1
    /\ UNCHANGED <<nNotices, started, chatUp, nUnsent, cmdVars,
                   classifyVars>>
    /\ UNCHANGED <<orchVars, workerVars, connVars, subs, linkUp, histVars>>

\* Client objects nobody holds any more: not the bridge's current client
\* (main.py:135 drops the previous one) and not one a shutdown() is still
\* disconnecting.
Unreferenced ==
    {c \in Clients : c # client /\ \A s \in ShutdownIds : shTarget[s] # c}

\* The interpreter reclaims the unreferenced client objects; the pubsub
\* registry holds listeners weakly, so their subscriptions go with them.
\* disconnect() (meshtastic_client.py:185-195) itself never unsubscribes.
CollectClient ==
    /\ ProcessAlive
    /\ subs \cap Unreferenced # {}
    /\ subs' = subs \ Unreferenced
    /\ UNCHANGED <<orchVars, workerVars, connVars, linkUp, bridgeVars,
                   packetVars, cmdVars, histVars>>

\* ------------------------------------------------- cooperative runtime

\* discord_client.py:342-360  send_message as the delivery tasks call it:
\* nothing is sent when the bot is not ready; a send that raises (the
\* platform refuses it, or the bot is closed) is caught and logged.
SendMessageOutcome ==
    IF ~ready THEN "not_ready"
    ELSE IF chatUp /\ ~botClosed THEN "sent"
    ELSE "send_failed"

\* The chat platform stops or resumes accepting sends (outage, rate limit,
\* revoked permission).
ChatLost ==
    /\ ProcessAlive /\ chatUp
    /\ chatUp' = FALSE
    /\ UNCHANGED <<queue, nNotices, nDropped, started, nUnsent>>
    /\ UNCHANGED <<orchVars, workerVars, connVars, subs, linkUp, packetVars,
                   cmdVars, histVars>>

ChatRestored ==
    /\ ProcessAlive /\ ~chatUp
    /\ chatUp' = TRUE
    /\ UNCHANGED <<queue, nNotices, nDropped, started, nUnsent>>
    /\ UNCHANGED <<orchVars, workerVars, connVars, subs, linkUp, packetVars,
                   cmdVars, histVars>>

\* Faulty variant of RunTask: the loop starts the newest scheduled coroutine
\* first.
RunTaskNewestFirst ==
    /\ LoopFree
    /\ queue # <<>>
    /\ queue' = SubSeq(queue, 1, Len(queue) - 1)
    /\ started' = [started EXCEPT
                       ![queue[Len(queue)].by] = queue[Len(queue)].n]
    /\ UNCHANGED <<nNotices, nDropped, chatUp, nUnsent>>
    /\ UNCHANGED <<orchVars, workerVars, connVars, subs, linkUp, packetVars,
                   cmdVars, histVars>>

\* Faulty variant of RunTask: a delivery that fails is not caught in the
\* task and ends the bridge.
RunTaskFailureEscapes ==
    /\ LoopFree
    /\ queue # <<>>
    /\ queue' = Tail(queue)
    /\ started' = [started EXCEPT ![Head(queue).by] = Head(queue).n]
    /\ nUnsent' = IF SendMessageOutcome = "sent" THEN nUnsent ELSE nUnsent + 1
    /\ running' = (running /\ SendMessageOutcome = "sent")
    /\ UNCHANGED <<nNotices, nDropped, chatUp>>
    /\ UNCHANGED <<loop, ready, botClosed, callbacksSet, spc, waited, sh,
                   shTarget, loopOwner>>
    /\ UNCHANGED <<workerVars, connVars, subs, linkUp, packetVars, cmdVars,
                   histVars>>

\* The event loop runs the oldest scheduled coroutine (a delivery task of
\* discord_client.py:342-473); whatever happens inside stays inside.
RunTask ==
    /\ LoopFree
    /\ queue # <<>>
    /\ queue' = Tail(queue)
    /\ started' = [started EXCEPT ![Head(queue).by] = Head(queue).n]
    /\ nUnsent' = IF SendMessageOutcome = "sent" THEN nUnsent ELSE nUnsent + 1
    /\ UNCHANGED <<nNotices, nDropped, chatUp>>
    /\ UNCHANGED <<orchVars, workerVars, connVars, subs, linkUp, packetVars,
                   cmdVars, histVars>>

\* main.py:110-114 -> meshtastic_client.py:233-249  _get_node_info
GetNodeInfoResult ==
    IF LinkAvailable THEN "node_info" ELSE "none"

\* main.py:116-120 -> meshtastic_client.py:205-231  _send_mesh_message
SendMeshMessageResult ==
    LinkAvailable

\* main.py:122-126 -> meshtastic_client.py:251-270  _list_nodes
ListNodesResult ==
    IF LinkAvailable THEN "nodes" ELSE "empty"

\* discord_client.py:78-133  !mesh info: the callback reads the connection
\* state and the interface; nothing of the bridge is written.
CmdInfo ==
    /\ LoopFree /\ ~botClosed
    /\ callbacksSet
    /\ GetNodeInfoResult \in {"node_info", "none"}
    /\ UNCHANGED vars

\* Faulty variant of CmdSend: a send that fails on a lost link marks the
\* client disconnected.
CmdSendMarksDown ==
    /\ LoopFree /\ ~botClosed
    /\ callbacksSet
    /\ client # 0
    /\ connected' = [connected EXCEPT
                        ![client] = SendMeshMessageResult /\ linkUp]
    /\ UNCHANGED iface
    /\ UNCHANGED <<orchVars, workerVars, subs, linkUp, bridgeVars, packetVars,
                   cmdVars, histVars>>

\* discord_client.py:136-170  !mesh send
CmdSend ==
    /\ LoopFree /\ ~botClosed
    /\ callbacksSet
    /\ SendMeshMessageResult \in BOOLEAN
    /\ UNCHANGED vars

\* discord_client.py:173-234  !mesh nodes
CmdNodes ==
    /\ LoopFree /\ ~botClosed
    /\ callbacksSet
    /\ ListNodesResult \in {"nodes", "empty"}
    /\ UNCHANGED vars

\* ------------------------------------- the commands, statement by statement

Commands == {"info", "send", "nodes", "help"}
\* Where a command can be issued: the configured channel, or another one.
Channels == {"bridge", "other"}
\* Message lengths of a send command.
Lengths == {0, max_len, max_len + 1, 10000}

\* What a node record says of its signal quality: a number, nothing (no snr
\* key), or a null snr.
Num(v) == [has |-> "num", snr |-> v]
Missing == [has |-> "missing", snr |-> 0]
Null == [has |-> "null", snr |-> 0]

\* discord_client.py:196  key=lambda x: x.get('snr', -999); a null snr is
\* its own key.
SortKey(node) ==
    IF node.has = "missing" THEN snr_default ELSE node.snr

\* sorted() compares keys once there are two of them, and a null key
\* compares with nothing.
Sortable(list) ==
    Len(list) < 2 \/ \A i \in 1..Len(list) : list[i].has # "null"

\* One step of a stable descending sort: position p goes after every
\* position whose key is at least its own.
InsertByKey(list, acc, p) ==
    LET ahead == Cardinality({i \in 1..Len(acc) :
                     SortKey(list[acc[i]]) >= SortKey(list[p])})
    IN  SubSeq(acc, 1, ahead) \o <<p>> \o SubSeq(acc, ahead + 1, Len(acc))

RECURSIVE SortedUpTo(_, _)
SortedUpTo(list, n) ==
    IF n = 0 THEN <<>> ELSE InsertByKey(list, SortedUpTo(list, n - 1), n)

\* discord_client.py:194-201  sorted(nodes_list, key=..., reverse=True)[:25],
\* as positions in nodes_list.
SortedNodes(list) ==
    LET all == SortedUpTo(list, Len(list))
    IN  SubSeq(all, 1, IF Len(all) < max_shown THEN Len(all) ELSE max_shown)

\* Faulty variant of CmdOpening: the length test is off by one.
CmdOpeningOffByOne(c, len) ==
    IF c = "help" THEN "help"
    ELSE IF ~callbacksSet THEN "not_available"
    ELSE IF c = "send" /\ len > max_len + 1 THEN "too_long"
    ELSE "pending"

\* discord_client.py:83-85, 141-148, 178-180, 242-271  the command is
\* received in the bridge's channel: the help command replies with the
\* command list; for the others no callback registered, or a message that
\* is too long, ends it at once; otherwise the callback of main.py:110-126
\* is called.
CmdOpening(c, len) ==
    IF c = "help" THEN "help"
    ELSE IF ~callbacksSet THEN "not_available"
    ELSE IF c = "send" /\ len > max_len THEN "too_long"
    ELSE "pending"

\* Faulty variant of InBridgeChannel: the channel is not looked at.
InAnyChannel(ch) ==
    TRUE

\* discord_client.py:80, 138, 175, 239  ctx.channel.id != self.channel_id
InBridgeChannel(ch) ==
    ch = "bridge"

\* Every outcome of a command but these two ends in one ctx.send.
Replies(result) ==
    IF result \in {"pending", "ignored"} THEN 0 ELSE 1

\* discord_client.py:78-88, 136-152, 173-183, 237-240  a command arrives;
\* in another channel than the bridge's the callback returns at once.
CmdStart ==
    /\ LoopFree /\ ~botClosed
    /\ \E c \in Commands, len \in Lengths, ch \in Channels :
        LET opening == IF InBridgeChannel(ch) THEN CmdOpening(c, len)
                       ELSE "ignored"
        IN  /\ c # "send" => len = 0
            /\ cmd' = c
            /\ cChannel' = ch
            /\ cLen' = len
            /\ cResult' = opening
            /\ cReplies' = Replies(opening)
            /\ cpc' = IF opening = "pending" THEN "cb" ELSE "idle"
    /\ cClient' = 0
    /\ cDev' = 0
    /\ shown' = <<>>
    /\ UNCHANGED nodeCache
    /\ UNCHANGED <<orchVars, workerVars, connVars, subs, linkUp, bridgeVars,
                   packetVars, histVars>>

\* Faulty variant of CmdCallback: the callback calls into the client
\* without looking at the connection.
CmdCallbackUnchecked ==
    /\ ProcessAlive /\ cpc = "cb"
    /\ cpc' = "st_check"
    /\ UNCHANGED <<cmd, cChannel, cReplies, cClient, cLen, cResult, cDev,
                   shown, nodeCache>>
    /\ UNCHANGED <<orchVars, workerVars, connVars, subs, linkUp, bridgeVars,
                   packetVars, histVars>>

\* main.py:112, 118, 124  if self.meshtastic_client and
\* self.meshtastic_client.is_connected(): ... else return None/False/[]
CmdCallback ==
    /\ ProcessAlive /\ cpc = "cb"
    /\ IF LinkAvailable
         THEN /\ cpc' = "st_check"
              /\ UNCHANGED cResult
         ELSE /\ cpc' = "idle"
              /\ cResult' = "unavailable"
    /\ cReplies' = Replies(cResult')
    /\ UNCHANGED <<cmd, cChannel, cClient, cLen, cDev, shown, nodeCache>>
    /\ UNCHANGED <<orchVars, workerVars, connVars, subs, linkUp, bridgeVars,
                   packetVars, histVars>>

\* main.py:113, 119, 125 -> meshtastic_client.py:216, 240, 258  the bridge's
\* client is read again and called; it tests is_connected() itself.
CmdClientCheck ==
    /\ ProcessAlive /\ cpc = "st_check"
    /\ cClient' = client
    /\ IF IsConnected(client)
         THEN /\ cpc' = "dev"
              /\ UNCHANGED cResult
         ELSE /\ cpc' = "idle"
              /\ cResult' = "unavailable"
    /\ cReplies' = Replies(cResult')
    /\ UNCHANGED <<cmd, cChannel, cLen, cDev, shown, nodeCache>>
    /\ UNCHANGED <<orchVars, workerVars, connVars, subs, linkUp, bridgeVars,
                   packetVars, histVars>>

\* What the command makes of a device call that returned: the node list is
\* sorted and cut (discord_client.py:185-201), which raises on keys that do
\* not compare (caught at discord_client.py:232-234).
CmdServed ==
    IF cmd # "nodes" THEN "ok"
    ELSE IF nodeCache = <<>> THEN "empty"
    ELSE IF Sortable(nodeCache) THEN "ok"
    ELSE "sort_error"

\* Faulty variant of CmdDeviceCall: an exception of the device call is not
\* caught in the client.
CmdDeviceCallUncaught ==
    /\ ProcessAlive /\ cpc = "dev"
    /\ cpc' = "idle"
    /\ IF iface[cClient] = "none"
         THEN /\ cResult' = "raised"
              /\ UNCHANGED <<cDev, shown>>
         ELSE /\ cDev' = cDev + 1
              /\ \E ok \in BOOLEAN :
                    /\ cResult' = IF ok THEN CmdServed ELSE "raised"
                    /\ shown' = IF ok /\ CmdServed = "ok" /\ cmd = "nodes"
                                THEN SortedNodes(nodeCache) ELSE <<>>
    /\ cReplies' = Replies(cResult')
    /\ UNCHANGED <<cmd, cChannel, cClient, cLen, nodeCache>>
    /\ UNCHANGED <<orchVars, workerVars, connVars, subs, linkUp, bridgeVars,
                   packetVars, histVars>>

\* Faulty variant of CmdDeviceCall: a device call that fails makes the
\* command disconnect the client.
CmdDeviceCallDisconnects ==
    /\ ProcessAlive /\ cpc = "dev"
    /\ cpc' = "idle"
    /\ IF iface[cClient] = "none"
         THEN /\ cResult' = "error"
              /\ connected' = [connected EXCEPT ![cClient] = FALSE]
              /\ UNCHANGED <<cDev, shown, iface>>
         ELSE /\ cDev' = cDev + 1
              /\ \E ok \in BOOLEAN :
                    /\ cResult' = IF ok THEN CmdServed ELSE "error"
                    /\ shown' = IF ok /\ CmdServed = "ok" /\ cmd = "nodes"
                                THEN SortedNodes(nodeCache) ELSE <<>>
                    /\ connected' = IF ok THEN connected
                                    ELSE [connected EXCEPT ![cClient] = FALSE]
                    /\ iface' = IF ok THEN iface
                                ELSE [iface EXCEPT ![cClient] = "none"]
    /\ cReplies' = Replies(cResult')
    /\ UNCHANGED <<cmd, cChannel, cClient, cLen, nodeCache>>
    /\ UNCHANGED <<orchVars, workerVars, subs, linkUp, bridgeVars,
                   packetVars, histVars>>

\* meshtastic_client.py:223-231, 244-249, 262-270  the device call on
\* self.interface: it raises AttributeError when the interface has been
\* set to None meanwhile, and otherwise returns or raises as the library
\* decides; every exception is caught and gives False, None or [].
CmdDeviceCall ==
    /\ ProcessAlive /\ cpc = "dev"
    /\ cpc' = "idle"
    /\ IF iface[cClient] = "none"
         THEN /\ cResult' = "error"
              /\ UNCHANGED <<cDev, shown>>
         ELSE /\ cDev' = cDev + 1
              /\ \E ok \in BOOLEAN :
                    /\ cResult' = IF ok THEN CmdServed ELSE "error"
                    /\ shown' = IF ok /\ CmdServed = "ok" /\ cmd = "nodes"
                                THEN SortedNodes(nodeCache) ELSE <<>>
    /\ cReplies' = Replies(cResult')
    /\ UNCHANGED <<cmd, cChannel, cClient, cLen, nodeCache>>
    /\ UNCHANGED <<orchVars, workerVars, connVars, subs, linkUp, bridgeVars,
                   packetVars, histVars>>

\* Signal qualities (dB) the node records carry.
SnrValues == {0 - 12, 0, 7}
NodeKinds == {Num(v) : v \in SnrValues} \cup {Missing, Null}

\* Every node list up to MaxNodes records, and lists longer than the
\* command shows.
ShortLists == UNION {[1..n -> NodeKinds] : n \in 0..MaxNodes}
LongLists ==
    {[i \in 1..(max_shown + 2) |->
         IF i % m = 0 THEN Missing ELSE Num((i % 3) * 7 - 12)] : m \in 2..4}
NodeLists == ShortLists \cup LongLists

\* Node databases the device library may hold.
CacheSamples ==
    {<<>>, <<Num(5), Missing, Num(5)>>}

\* The device library updates the node database of an open interface as
\* packets come in.
NodeDbUpdate ==
    /\ ProcessAlive /\ linkUp
    /\ \E c \in Clients : iface[c] = "open"
    /\ \E list \in CacheSamples :
        /\ list # nodeCache
        /\ nodeCache' = list
    /\ UNCHANGED <<cmd, cChannel, cReplies, cpc, cClient, cLen, cResult, cDev,
                   shown>>
    /\ UNCHANGED <<orchVars, workerVars, connVars, subs, linkUp, bridgeVars,
                   packetVars, histVars>>

CommandSteps ==
    \/ CmdStart
    \/ CmdCallback
    \/ CmdClientCheck
    \/ CmdDeviceCall

\* ------------------------------------------------------ specifications

Worker ==
    \/ WorkerLoopTest
    \/ WorkerCreateClient
    \/ WorkerRaise
    \/ ConnectSubscribe
    \/ ConnectSucceed
    \/ ConnectFail
    \/ WorkerSetupCallbacks
    \/ WorkerPollTest
    \/ WorkerPollSleep
    \/ WorkerAfterPoll
    \/ WorkerNotify
    \/ WorkerFinallyCheck
    \/ WorkerFinallyClear
    \/ WorkerBackoffTest
    \/ WorkerBackoffSleep

Shutdown ==
    \/ ShutdownClearFlag
    \/ ShutdownDisconnectCheck
    \/ ShutdownDisconnectClear
    \/ ShutdownStopDiscord

Orchestrator ==
    \/ StartInit
    \/ StartWaitPoll
    \/ StartSpawnWorker
    \/ StartTimeout
    \/ StartSetRunning
    \/ RunForeverExit
    \/ MainCatch
    \/ MainExit

Runtime ==
    \/ RunTask
    \/ CmdInfo
    \/ CmdSend
    \/ CmdNodes

Environment ==
    \/ DiscordOnReady
    \/ SignalHandler
    \/ LinkLost
    \/ LinkRestored

\* The lifecycle: startup, the supervisor loop, shutdown, the commands.  The
\* packet feed is left to FeedSpec: DeliverPacket and CollectClient write
\* only queue, pkts, subs and nDropped, which no action below reads but
\* RunTask and ConnectSubscribe.
Next ==
    \/ Worker
    \/ Shutdown
    \/ Orchestrator
    \/ Runtime
    \/ Environment

Spec == Init /\ [][Next]_vars

\* The worker is an OS thread and the event loop keeps running its ready
\* coroutines: each keeps taking steps while it has one to take.  Signals,
\* the device link, the chat platform and the users are under no obligation.
FairSpec ==
    /\ Spec
    /\ WF_vars(Worker)
    /\ WF_vars(Shutdown)
    /\ WF_vars(Orchestrator)
    /\ WF_vars(RunTask)

\* The bridge once startup is over (main.py:93): the loop is set, the bot is
\* ready, the callbacks are registered, the worker thread has been started.
FeedInit ==
    /\ running = TRUE
    /\ loop = TRUE
    /\ ready = TRUE
    /\ botClosed = FALSE
    /\ callbacksSet = TRUE
    /\ spc = "run_forever"
    /\ waited = 0
    /\ sh = [s \in ShutdownIds |-> "idle"]
    /\ shTarget = [s \in ShutdownIds |-> 0]
    /\ loopOwner = 0
    /\ wpc = "loop_test"
    /\ exiting = FALSE
    /\ client = 0
    /\ connected = [c \in Clients |-> FALSE]
    /\ iface = [c \in Clients |-> "none"]
    /\ subs = {}
    /\ linkUp \in BOOLEAN
    /\ queue = <<>>
    /\ pkts = 0
    /\ packetLog = <<>>
    /\ packet = NoPacket
    /\ nodeNames = NoNames
    /\ now = Epoch
    /\ classified = <<>>
    /\ started = [c \in Callers |-> 0]
    /\ chatUp = TRUE
    /\ nUnsent = 0
    /\ cmd = "none"
    /\ cChannel = "none"
    /\ cReplies = 0
    /\ cpc = "idle"
    /\ cClient = 0
    /\ cLen = 0
    /\ cResult = "none"
    /\ cDev = 0
    /\ shown = <<>>
    /\ nodeCache = <<>>
    /\ nFailed = 0
    /\ nNotices = 0
    /\ nDropped = 0
    /\ nEnded = 0
    /\ nBackoff = 0
    /\ backoffDue = "no"
    /\ everCleared = FALSE
    /\ readySeen = TRUE
    /\ envDelay = <<>>
    /\ reconnect_delay = default_delay
    /\ shutSaw = 0

\* The packet feed over a running bridge: the supervisor loop, the device
\* link and its packets, the reclaiming of dropped client objects, the
\* event loop running the scheduled tasks, and a shutdown by signal.
FeedNext ==
    \/ Worker
    \/ Shutdown
    \/ RunForeverExit
    \/ SignalHandler
    \/ LinkLost
    \/ LinkRestored
    \/ DeliverPacket
    \/ CollectClient
    \/ RunTask

FeedSpec == FeedInit /\ [][FeedNext]_vars

\* ------------------------------------------------- the handler on its own

\* The types a message handed to handle_message may carry: one the handler
\* forwards (direct_message, telemetry) or one it does not know.
MessageTypes == {"message", "unknown"}

\* message_handler.py:32-65  handle_message called by any client object's
\* reader, whether or not the loop has been set.
HandleMessage ==
    /\ ProcessAlive
    /\ pkts < MaxPackets
    /\ \E by \in Clients, type \in MessageTypes :
        LET S == IF type = "message" THEN {by} ELSE {}
        IN  /\ queue' = ScheduleEach(queue, type, S)
            /\ nDropped' = IF loop THEN nDropped ELSE nDropped + Cardinality(S)
    /\ pkts' = pkts + 1
    /\ UNCHANGED <<nNotices, started, chatUp, nUnsent, packetLog, cmdVars,
                   classifyVars>>
    /\ UNCHANGED <<orchVars, workerVars, connVars, subs, linkUp, histVars>>

\* message_handler.py:83-94  send_error_to_discord called by the worker,
\* whether or not the loop has been set.
SendErrorToDiscord ==
    /\ ProcessAlive
    /\ nNotices + nDropped < MaxAttempts
    /\ queue' = ScheduleQueue(queue,
                              Task(WorkerId, nNotices + nDropped + 1, "error"))
    /\ nNotices' = IF loop THEN nNotices + 1 ELSE nNotices
    /\ nDropped' = IF loop THEN nDropped ELSE nDropped + 1
    /\ UNCHANGED <<started, chatUp, nUnsent>>
    /\ UNCHANGED <<orchVars, workerVars, connVars, subs, linkUp, packetVars,
                   cmdVars, histVars>>

\* The handler under arbitrary callers, from its construction on: calls
\* before and after set_event_loop (main.py:62, part of StartInit), and
\* the event loop running what was scheduled.
HandlerNext ==
    \/ StartInit
    \/ HandleMessage
    \/ SendErrorToDiscord
    \/ RunTask

HandlerSpec == Init /\ [][HandlerNext]_vars

\* The supervisor loop while no shutdown is requested: the flag stays true
\* and is_connected() stays true once connected, so the test of main.py:149
\* never fails and WorkerAfterPoll has no step to take.
Serving ==
    \/ WorkerLoopTest
    \/ WorkerCreateClient
    \/ WorkerRaise
    \/ ConnectSubscribe
    \/ ConnectSucceed
    \/ ConnectFail
    \/ WorkerSetupCallbacks
    \/ WorkerPollTest
    \/ WorkerPollSleep
    \/ WorkerNotify
    \/ WorkerFinallyCheck
    \/ WorkerFinallyClear
    \/ WorkerBackoffTest
    \/ WorkerBackoffSleep

\* Packet ingestion and delivery over a bridge in service: the supervisor
\* loop, the device link and its packets, the reclaiming of dropped client
\* objects, and the event loop running the scheduled tasks.
IngestNext ==
    \/ Serving
    \/ LinkLost
    \/ LinkRestored
    \/ DeliverPacket
    \/ CollectClient
    \/ RunTask

IngestSpec == FeedInit /\ [][IngestNext]_vars

\* Delivery of the worker's notices over a bridge in service: the
\* supervisor loop, the device link, the chat platform refusing sends, the
\* chat client losing and finding its channel, and the event loop running
\* the scheduled tasks.
NoticeNext ==
    \/ Serving
    \/ LinkLost
    \/ LinkRestored
    \/ ChatLost
    \/ ChatRestored
    \/ DiscordOnReady
    \/ DiscordOnReadyAgain
    \/ RunTask

NoticeSpec == FeedInit /\ [][NoticeNext]_vars

\* The worker is an OS thread: it keeps taking steps while it has one to
\* take.  Nothing obliges the event loop to run a scheduled task.
NoticeFairSpec == NoticeSpec /\ WF_vars(Serving)

\* The commands over a bridge in service: the supervisor loop on its
\* thread, the device link and its node database, and the command callbacks
\* on the event loop.
CommandNext ==
    \/ Serving
    \/ LinkLost
    \/ LinkRestored
    \/ NodeDbUpdate
    \/ CommandSteps

CommandSpec == FeedInit /\ [][CommandNext]_vars

\* The bridge connected on its first attempt, the worker polling, and any
\* node list in the interface's node database.
NodesInit ==
    /\ running = TRUE
    /\ loop = TRUE
    /\ ready = TRUE
    /\ botClosed = FALSE
    /\ callbacksSet = TRUE
    /\ spc = "run_forever"
    /\ waited = 0
    /\ sh = [s \in ShutdownIds |-> "idle"]
    /\ shTarget = [s \in ShutdownIds |-> 0]
    /\ loopOwner = 0
    /\ wpc = "poll"
    /\ exiting = FALSE
    /\ client = 1
    /\ connected = [c \in Clients |-> c = 1]
    /\ iface = [c \in Clients |-> IF c = 1 THEN "open" ELSE "none"]
    /\ subs = {1}
    /\ linkUp = TRUE
    /\ queue = <<>>
    /\ pkts = 0
    /\ packetLog = <<>>
    /\ packet = NoPacket
    /\ nodeNames = NoNames
    /\ now = Epoch
    /\ classified = <<>>
    /\ started = [c \in Callers |-> 0]
    /\ chatUp = TRUE
    /\ nUnsent = 0
    /\ cmd = "none"
    /\ cChannel = "none"
    /\ cReplies = 0
    /\ cpc = "idle"
    /\ cClient = 0
    /\ cLen = 0
    /\ cResult = "none"
    /\ cDev = 0
    /\ shown = <<>>
    /\ nodeCache \in NodeLists
    /\ nFailed = 0
    /\ nNotices = 0
    /\ nDropped = 0
    /\ nEnded = 0
    /\ nBackoff = 0
    /\ backoffDue = "no"
    /\ everCleared = FALSE
    /\ readySeen = TRUE
    /\ envDelay = <<>>
    /\ reconnect_delay = default_delay
    /\ shutSaw = 0

\* The commands served over that bridge.
NodesSpec == NodesInit /\ [][CommandSteps]_vars

\* A client of the running bridge, its interface set or already cleared
\* by disconnect(), is given any packet against any node database.
ClassifyInit ==
    /\ running = TRUE
    /\ loop = TRUE
    /\ ready = TRUE
    /\ botClosed = FALSE
    /\ callbacksSet = TRUE
    /\ spc = "run_forever"
    /\ waited = 0
    /\ sh = [s \in ShutdownIds |-> "idle"]
    /\ shTarget = [s \in ShutdownIds |-> 0]
    /\ loopOwner = 0
    /\ \E up \in BOOLEAN :
        /\ wpc = (IF up THEN "poll" ELSE "backoff_sleep")
        /\ connected = [c \in Clients |-> up /\ c = 1]
        /\ iface = [c \in Clients |-> IF up /\ c = 1 THEN "open" ELSE "none"]
        /\ nFailed = (IF up THEN 0 ELSE 1)
        /\ nNotices = (IF up THEN 0 ELSE 1)
        /\ nEnded = (IF up THEN 0 ELSE 1)
        /\ backoffDue = (IF up THEN "no" ELSE "due")
        /\ queue = (IF up THEN <<>> ELSE <<Task(WorkerId, 1, "error")>>)
    /\ exiting = FALSE
    /\ client = 1
    /\ subs = {1}
    /\ linkUp = TRUE
    /\ pkts = 0
    /\ packetLog = <<>>
    /\ packet \in Packets
    /\ nodeNames \in NameCaches
    /\ now = Epoch
    /\ classified = <<>>
    /\ started = [c \in Callers |-> 0]
    /\ chatUp = TRUE
    /\ nUnsent = 0
    /\ cmd = "none"
    /\ cChannel = "none"
    /\ cReplies = 0
    /\ cpc = "idle"
    /\ cClient = 0
    /\ cLen = 0
    /\ cResult = "none"
    /\ cDev = 0
    /\ shown = <<>>
    /\ nodeCache = <<>>
    /\ nDropped = 0
    /\ nBackoff = 0
    /\ everCleared = FALSE
    /\ readySeen = TRUE
    /\ envDelay = <<>>
    /\ reconnect_delay = default_delay
    /\ shutSaw = 0

\* The process from its first statement: the configuration is loaded from
\* any environment, the bridge starts, and the supervisor loop runs over a
\* device link that comes and goes.
ConfigInit ==
    /\ running = TRUE
    /\ loop = FALSE
    /\ ready = FALSE
    /\ botClosed = FALSE
    /\ callbacksSet = FALSE
    /\ spc = "load_config"
    /\ waited = 0
    /\ sh = [s \in ShutdownIds |-> "idle"]
    /\ shTarget = [s \in ShutdownIds |-> 0]
    /\ loopOwner = 0
    /\ wpc = "idle"
    /\ exiting = FALSE
    /\ client = 0
    /\ connected = [c \in Clients |-> FALSE]
    /\ iface = [c \in Clients |-> "none"]
    /\ subs = {}
    /\ linkUp \in BOOLEAN
    /\ queue = <<>>
    /\ pkts = 0
    /\ packetLog = <<>>
    /\ packet = NoPacket
    /\ nodeNames = NoNames
    /\ now = Epoch
    /\ classified = <<>>
    /\ started = [c \in Callers |-> 0]
    /\ chatUp = TRUE
    /\ nUnsent = 0
    /\ cmd = "none"
    /\ cChannel = "none"
    /\ cReplies = 0
    /\ cpc = "idle"
    /\ cClient = 0
    /\ cLen = 0
    /\ cResult = "none"
    /\ cDev = 0
    /\ shown = <<>>
    /\ nodeCache = <<>>
    /\ nFailed = 0
    /\ nNotices = 0
    /\ nDropped = 0
    /\ nEnded = 0
    /\ nBackoff = 0
    /\ backoffDue = "no"
    /\ everCleared = FALSE
    /\ readySeen = FALSE
    /\ envDelay \in EnvDelays
    /\ reconnect_delay = 0
    /\ shutSaw = 0

ConfigNext ==
    \/ MainLoadConfig
    \/ StartInit
    \/ DiscordOnReady
    \/ StartWaitPoll
    \/ StartSpawnWorker
    \/ StartSetRunning
    \/ Serving
    \/ LinkLost
    \/ LinkRestored

ConfigSpec == ConfigInit /\ [][ConfigNext]_vars

ClassifyNext ==
    \/ OnReceive
    \/ ClockTick

ClassifySpec == ClassifyInit /\ [][ClassifyNext]_vars

\* ---------------------------------------------------------------- claims

\* C1: once the device link is lost under a connected session (disconnect()
\* not called on the client), the worker eventually leaves the polling loop
\* of main.py:149, unless the keep-running flag is cleared.
LinkLostWhileConnected ==
    /\ wpc \in PollPcs
    /\ ~linkUp
    /\ LinkAvailable /\ iface[client] = "open"

C1_LinkLossEndsSession ==
    LinkLostWhileConnected ~> (~running \/ wpc \notin PollPcs)

\* C2: every failed or lost attempt schedules exactly one error notice and a
\* successful connect schedules none, so after N failures and one success N
\* notices have been scheduled; and the connection state only moves
\* Disconnected -> Connecting -> (Connected | Disconnected) and
\* Connected -> Disconnected.
NoticePending ==
    IF wpc = "notify" THEN 1 ELSE 0

ConnStateMoves ==
    { <<"Disconnected", "Connecting">>, <<"Connecting", "Connected">>,
      <<"Connecting", "Disconnected">>, <<"Connected", "Disconnected">> }

C2_OneNoticePerFailedAttempt ==
    /\ [](nNotices + NoticePending = nFailed)
    /\ [][ConnState' # ConnState => <<ConnState, ConnState'>> \in ConnStateMoves]_vars

C2_TwoFailuresThenConnected ==
    /\ wpc = "poll" /\ client = 3 /\ ConnState = "Connected"
    /\ nFailed = 2 /\ nNotices = 2
    /\ ~everCleared

\* C3: while the flag stays true, a full backoff sleep lies between the end
\* of a failed, lost or raised attempt and the next connect(); until the
\* first shutdown every ended attempt has its completed backoff sleep.
BackoffOwed ==
    IF backoffDue = "due" THEN 1 ELSE 0

C3_BackoffBeforeReconnect ==
    /\ wpc \in ({"create"} \cup ConnectPcs) => backoffDue # "due"
    /\ ~everCleared => nBackoff + BackoffOwed = nEnded

C3_ReconnectAfterTwoBackoffs ==
    /\ wpc = "connect_sub" /\ running /\ ~everCleared
    /\ nEnded = 2 /\ nBackoff = 2

\* C4: a packet delivered by the device link produces at most one task on
\* the bridge.
C4_AtMostOneTaskPerPacket ==
    [][pkts' = pkts + 1 => Len(queue') <= Len(queue) + 1]_vars

\* C5: once the worker thread has been started the handler's loop is set and
\* start() saw the chat client ready before spawning it; no schedule call
\* ever found the loop absent.
C5_WorkerStartsAfterLoopAndReady ==
    /\ wpc # "idle" => loop /\ readySeen
    /\ nDropped = 0

C5_WorkerScheduledNotice ==
    /\ wpc = "fin_check" /\ nNotices >= 1
    /\ loop /\ readySeen

\* C6: start() leaves its wait either with the chat client ready, or, when
\* it is still not ready after the max_wait polls, by failing; after a
\* failed startup the worker thread is never started, no device client is
\* ever created or subscribed, and once start()'s shutdown() has run the
\* keep-running flag is false.
StartupFailed ==
    spc \in {"except", "main_except", "exited"}

LeavesWait ==
    spc = "wait" /\ spc' # "wait"

C6_StartupTimeoutIsFatal ==
    /\ [][LeavesWait =>
            IF ready THEN spc' = "sleep2"
            ELSE waited = max_wait /\ spc' = "except"]_vars
    /\ [](StartupFailed =>
            /\ waited = max_wait
            /\ wpc = "idle" /\ client = 0 /\ subs = {}
            /\ spc \in {"main_except", "exited"} => ~running)

C6_ExitedAfterTimeout ==
    spc = "exited" /\ waited = max_wait /\ ~running /\ wpc = "idle"

\* C7: once shutdown() has cleared the flag, a started worker eventually
\* leaves its loop (or the process ends first).
WorkerAtCap ==
    wpc = "create" /\ client = MaxAttempts

C7_ClearedFlagEndsWorker ==
    (everCleared /\ wpc # "idle")
        ~> (wpc = "done" \/ ~ProcessAlive \/ WorkerAtCap)

\* C8: once the keep-running flag is false it is never true again.
C8_FlagClearedOnce ==
    [][~running => ~running']_vars

\* C9 (as stated): every change of the connected flag or the interface
\* handle of a client is a step of the worker thread.
ConnChanged ==
    connected' # connected \/ iface' # iface

WorkerStep ==
    wpc # "idle" /\ wpc' # wpc

ShutdownDisconnectStep ==
    \E s \in ShutdownIds : sh[s] \in {"disc", "disc_clear"} /\ sh'[s] # sh[s]

WorkerLeaving ==
    exiting \/ wpc = "done"

C10_LoopLeftOnlyWhenFlagCleared ==
    [][(~WorkerLeaving /\ WorkerLeaving') => ~running]_vars

C10_NewAttemptAfterFailures ==
    /\ running /\ ~WorkerLeaving
    /\ wpc \in ConnectPcs /\ nEnded = 2 /\ nFailed >= 1

\* C11: a packet whose classification or push raises schedules no task and
\* changes neither the connection state, nor the worker's position, nor the
\* flag, nor the subscriptions; whatever came before it, a text packet hands
\* the handler one message per subscribed client.
RaisedKinds == {"malformed", "push_error"}

PacketStep ==
    pkts' = pkts + 1

LastLogged ==
    packetLog[Len(packetLog)]

C11_RaisingPacketIsSkipped ==
    [][PacketStep =>
        /\ LastLogged' \in RaisedKinds =>
                /\ queue' = queue
                /\ UNCHANGED <<connVars, workerVars, running, subs>>
        /\ LastLogged' = "text" =>
                Len(queue') = Len(queue) + Cardinality(subs)]_vars

C11_TextAfterRaisingPackets ==
    /\ pkts >= 2
    /\ packetLog[1] \in RaisedKinds /\ packetLog[2] = "text"
    /\ queue # <<>> /\ queue[Len(queue)].n = pkts
    /\ wpc \in PollPcs /\ ConnState = "Connected"

\* C12: the tasks of one caller sit in the loop's queue in the order of its
\* schedule calls, every queued task of a caller was scheduled after the
\* last task of that caller the loop started, and the loop starts a
\* caller's tasks in increasing order, whatever it runs in between.
QueuedInCallOrder ==
    \A i, j \in 1..Len(queue) :
        (i < j /\ queue[i].by = queue[j].by) => queue[i].n < queue[j].n

QueuedAfterStarted ==
    \A i \in 1..Len(queue) : queue[i].n > started[queue[i].by]

C12_TasksStartInScheduleOrder ==
    /\ [](QueuedInCallOrder /\ QueuedAfterStarted)
    /\ [][\A c \in Callers : started'[c] >= started[c]]_vars

C12_InterleavedCallersQueued ==
    /\ Len(queue) = 3
    /\ queue[1].by = WorkerId /\ queue[3].by = WorkerId
    /\ queue[2].by # WorkerId
    /\ started[WorkerId] = 1

\* C15: a schedule call made while the handler has no loop changes neither
\* the queue nor the loop handle nor what the loop has started, and returns
\* (it is counted as dropped); a schedule call made once the loop is set
\* appends its task to the queue, however many calls were dropped before.
ScheduleCallStep ==
    nNotices' + nDropped' + Len(queue') > nNotices + nDropped + Len(queue)

C15_DropWithoutLoopThenEnqueue ==
    [][ScheduleCallStep =>
        IF loop
        THEN /\ Len(queue') = Len(queue) + 1
             /\ SubSeq(queue', 1, Len(queue)) = queue
             /\ nDropped' = nDropped
        ELSE /\ queue' = queue /\ loop' = loop /\ started' = started
             /\ nDropped' = nDropped + 1]_vars

C15_EnqueuedAfterDrops ==
    /\ loop /\ nDropped = 2
    /\ Len(queue) = 2
    /\ queue[1].by = WorkerId /\ queue[2].by # WorkerId

\* C13: a delivery task that ends without a send (the send raised, or the
\* chat client was not ready) only leaves the queue: the worker's position
\* and client, the connection state, the flag and the subscriptions are as
\* before, and the loop can still run whatever is queued.
TaskStep ==
    started' # started

C13_FailedDeliveryStaysInTask ==
    /\ [][(TaskStep /\ SendMessageOutcome # "sent") =>
            /\ queue' = Tail(queue)
            /\ UNCHANGED <<workerVars, connVars, running, subs, loop>>]_vars
    /\ [](queue # <<>> => ENABLED RunTask)

C13_WorkerGoesOnAfterFailedDeliveries ==
    /\ nUnsent = 2 /\ started[WorkerId] = 2
    /\ nNotices = 3 /\ queue # <<>>
    /\ running /\ wpc = "fin_check"

\* C14: once the worker has made a schedule call it always has a next step
\* to take, whatever the loop has done with the scheduled tasks; it gets
\* from the schedule call to its backoff sleep even when the loop runs
\* none of them.
WorkerHasScheduled ==
    wpc # "done" /\ nNotices + nDropped > 0

C14_ScheduleNeverBlocksWorker ==
    /\ []((ProcessAlive /\ WorkerHasScheduled /\ ~WorkerAtCap) =>
            ENABLED Serving)
    /\ (wpc = "notify") ~> (wpc = "backoff_sleep")

C14_WorkerPastUnrunNotices ==
    /\ wpc = "backoff_sleep"
    /\ nNotices = 2 /\ Len(queue) = 2 /\ started[WorkerId] = 0

\* C16: a send command whose message is longer than max_len ends with the
\* too-long reply and no device call; one of at most max_len makes at most
\* one device call, succeeds only through it, and, served while the link
\* is Connected at each of its steps, makes exactly one and returns what
\* the device call gave.
SendServed ==
    cmd = "send" /\ cChannel = "bridge" /\ cpc = "idle"

CmdMoves ==
    cpc \in {"cb", "st_check", "dev"} /\ cpc' # cpc

CmdLinkReady ==
    IF cpc = "dev" THEN IsConnected(cClient) ELSE LinkAvailable

C16_SendLengthLimit ==
    /\ [](SendServed =>
            IF cLen > max_len
            THEN cResult = "too_long" /\ cDev = 0
            ELSE /\ cResult \in {"ok", "error", "unavailable"}
                 /\ cDev <= 1
                 /\ cResult = "ok" => cDev = 1
                 /\ cResult = "unavailable" => cDev = 0)
    /\ [][(cmd = "send" /\ CmdMoves /\ CmdLinkReady) =>
            IF cpc' = "idle"
            THEN cDev' = 1 /\ cResult' \in {"ok", "error"}
            ELSE cDev' = 0 /\ cResult' = "pending"]_vars

C16_TooLongWhileConnected ==
    /\ SendServed /\ cLen = max_len + 1
    /\ cResult = "too_long" /\ cDev = 0
    /\ ConnState = "Connected" /\ linkUp

\* C17: a callback that finds the bridge's client not connected, on entry
\* or when it calls into the client, returns its nothing (None, False, [])
\* in that very step, with no device call made.
C17_UnavailableInOneStep ==
    [][(cpc \in {"cb", "st_check"} /\ cpc' # cpc /\ ~LinkAvailable) =>
        /\ cpc' = "idle"
        /\ cResult' = "unavailable"
        /\ cDev' = 0]_vars

C17_InfoUnavailable ==
    /\ cmd = "info" /\ cpc = "idle"
    /\ cResult = "unavailable" /\ cDev = 0
    /\ ConnState = "Disconnected"

\* C18: a callback that passed the connection test of main.py and then
\* finds the client disconnected by the worker (at the client's own test,
\* or at the device call) returns its nothing without a device call, and
\* no command ever ends with an exception leaving the callback.
CallbackResults ==
    {"none", "pending", "not_available", "too_long", "unavailable", "error",
     "ok", "empty", "sort_error", "help", "ignored"}

C18_RaceEndsInFailureResult ==
    /\ [](cResult \in CallbackResults)
    /\ [][(cpc \in {"st_check", "dev"} /\ cpc' # cpc /\ ~CmdLinkReady) =>
            /\ cpc' = "idle"
            /\ cResult' = (IF cpc = "dev" THEN "error" ELSE "unavailable")
            /\ cDev' = cDev]_vars

C18_DeviceCallOnClearedInterface ==
    /\ cmd = "send" /\ cpc = "idle"
    /\ cResult = "error" /\ cDev = 0
    /\ iface[cClient] = "none"

\* C19: no step of a command changes the connection state, the bridge's
\* client, the flag, the subscriptions, the node database, the loop handle
\* or the queue.
CmdStep ==
    \/ cpc' # cpc
    \/ cmd' # cmd
    \/ cResult' # cResult
    \/ cDev' # cDev
    \/ shown' # shown

C19_CommandsWriteNothing ==
    [][CmdStep =>
        UNCHANGED <<connVars, client, running, subs, nodeCache, loop,
                    queue>>]_vars

C19_NodesServedFromCache ==
    /\ cmd = "nodes" /\ cpc = "idle"
    /\ cResult = "ok" /\ cDev = 1
    /\ shown = <<1, 3, 2>>
    /\ nodeCache = <<Num(5), Missing, Num(5)>>

\* C20: a nodes command given a non-empty node list presents min(25, its
\* length) of its nodes, each once; of two presented nodes the earlier one
\* has the known and the later the unknown signal quality, or both are
\* known and the earlier has the higher one, or they are equal in that and
\* the earlier came first in the list; and every node left out would come
\* after every node presented.
Known(node) ==
    node.has = "num"

Precedes(list, a, b) ==
    \/ Known(list[a]) /\ ~Known(list[b])
    \/ Known(list[a]) /\ Known(list[b]) /\ list[a].snr > list[b].snr
    \/ Known(list[a]) /\ Known(list[b]) /\ list[a].snr = list[b].snr /\ a < b
    \/ ~Known(list[a]) /\ ~Known(list[b]) /\ a < b

InClaimedOrder(list, out) ==
    /\ Len(out) = (IF Len(list) < max_shown THEN Len(list) ELSE max_shown)
    /\ \A i \in 1..Len(out) : out[i] \in 1..Len(list)
    /\ \A i, j \in 1..Len(out) : i < j => Precedes(list, out[i], out[j])
    /\ \A p \in 1..Len(list) :
          (\A i \in 1..Len(out) : out[i] # p) =>
              \A i \in 1..Len(out) : Precedes(list, out[i], p)

NodesGiven ==
    cmd = "nodes" /\ cpc = "idle" /\ cResult \in {"ok", "sort_error"}

C20_NodesBySignalQuality ==
    NodesGiven => InClaimedOrder(nodeCache, shown)

\* What does hold: a list none of whose records has a null snr is presented
\* in that order.
NoNullSnr(list) ==
    \A i \in 1..Len(list) : list[i].has # "null"

ComparableListsInClaimedOrder ==
    NodesGiven /\ NoNullSnr(nodeCache) => InClaimedOrder(nodeCache, shown)

\* C21: a command issued in another channel than the bridge's ends where it
\* began: its callback is not called, no device-link primitive is called,
\* nothing is presented and no reply is sent; issuing it changes nothing
\* of the bridge, the client or the queue.
IssuedElsewhere ==
    cmd' # "none" /\ cChannel' = "other"
        /\ <<cmd, cChannel, cLen, cResult>>' # <<cmd, cChannel, cLen, cResult>>

C21_OtherChannelIgnored ==
    /\ [](cChannel = "other" =>
            /\ cpc = "idle"
            /\ cClient = 0
            /\ cDev = 0
            /\ cReplies = 0
            /\ shown = <<>>)
    /\ [][IssuedElsewhere =>
            UNCHANGED <<connVars, client, running, subs, nodeCache, queue>>]_vars

C21_SendElsewhereWhileConnected ==
    /\ cmd = "send" /\ cChannel = "other" /\ cLen = max_len
    /\ cReplies = 0 /\ cDev = 0
    /\ callbacksSet /\ ConnState = "Connected" /\ linkUp

\* C22: a packet without a decoded payload, or whose kind is neither
\* TEXT_MESSAGE nor TELEMETRY, is classified as nothing every time, and no
\* message task reaches the bridge.
Unhandled(p) ==
    \/ p.decoded # "dict"
    \/ p.portnum \notin {"TEXT_MESSAGE_APP", "TELEMETRY_APP"}

NoMessageQueued ==
    /\ \A i \in 1..Len(queue) : queue[i].kind # "message"
    /\ nDropped = 0

C22_OtherKindsYieldNothing ==
    Unhandled(packet) =>
        /\ \A i \in 1..Len(classified) : classified[i] = Nothing
        /\ NoMessageQueued

C22_PositionClassifiedTwice ==
    /\ packet.decoded = "dict" /\ packet.portnum = "POSITION_APP"
    /\ packet.fromId = SenderId /\ nodeNames.byId.long = "Alice Base"
    /\ Len(classified) = 2 /\ classified[2] = Nothing
    /\ queue = <<>>

\* C23: a TELEMETRY packet none of whose five metrics of interest is
\* present (no device metrics, an empty dict, or a dict of other fields
\* only) is classified as nothing; one with some of them present gives a
\* telemetry message that marks exactly those present.
IsTelemetry(p) ==
    p.decoded = "dict" /\ p.portnum = "TELEMETRY_APP"

MetricsPresent(p) ==
    {f \in Metrics : p.dm.kind = "dict" /\ f \in p.dm.fields}

C23_TelemetryNeedsAMetric ==
    IsTelemetry(packet) =>
        \A i \in 1..Len(classified) :
            IF MetricsPresent(packet) = {}
            THEN classified[i] = Nothing
            ELSE /\ classified[i].type = "telemetry"
                 /\ classified[i].present = MetricsPresent(packet)

\* What does hold: the same, for packets whose deviceMetrics holds no
\* other field than the five.
TelemetryOfKnownFields ==
    (IsTelemetry(packet) /\ OtherField \notin packet.dm.fields) =>
        \A i \in 1..Len(classified) :
            IF MetricsPresent(packet) = {}
            THEN classified[i] = Nothing
            ELSE /\ classified[i].type = "telemetry"
                 /\ classified[i].present = MetricsPresent(packet)

\* C24: a TEXT_MESSAGE packet with a decoded payload is classified as a
\* direct message whose text is the payload's text, at its full length
\* (the empty text when the payload has none).
IsText(p) ==
    p.decoded = "dict" /\ p.portnum = "TEXT_MESSAGE_APP"

C24_TextPassedUnchanged ==
    IsText(packet) =>
        \A i \in 1..Len(classified) :
            /\ classified[i].type = "direct_message"
            /\ IF packet.text = NoText
               THEN classified[i].text.len = 0
               ELSE classified[i].text = packet.text

C24_LongTextClassified ==
    /\ IsText(packet) /\ packet.text = Str(1000)
    /\ Len(classified) >= 1
    /\ classified[1].text.len = 1000
    /\ \E i \in 1..Len(queue) : queue[i].kind = "message"

\* C25 as stated: the display name is taken from the record under the
\* sender's numeric id (long name, else short name, else the raw id), and
\* is the raw id when there is no such record or the lookup fails.
FirstName(long, short, raw) ==
    IF long \notin {"absent", ""} THEN long
    ELSE IF short \notin {"absent", ""} THEN short
    ELSE raw

RawSender(p) ==
    IF p.fromId = "absent" THEN "Unknown" ELSE p.fromId

LookupWorks(p) ==
    iface[client] # "none" /\ nodeNames.ok /\ p.from # 0

NameByNumber(p) ==
    IF LookupWorks(p) /\ nodeNames.byNum.kind = "user"
    THEN FirstName(nodeNames.byNum.long, nodeNames.byNum.short, RawSender(p))
    ELSE RawSender(p)

C25_NameByNumericId ==
    \A i \in 1..Len(classified) :
        classified[i] # Nothing => classified[i].from_id = NameByNumber(packet)

\* C25, amended: the record is the one under the sender's id string when
\* there is a non-empty one, else the one under its numeric id; the lookup
\* is made only for a packet with a numeric id other than 0.
RecordUsed(p) ==
    IF p.fromId = SenderId /\ nodeNames.byId.kind \in {"no_user", "user"}
    THEN nodeNames.byId
    ELSE nodeNames.byNum

NameByIdThenNumber(p) ==
    IF LookupWorks(p) /\ RecordUsed(p).kind = "user"
    THEN FirstName(RecordUsed(p).long, RecordUsed(p).short, RawSender(p))
    ELSE RawSender(p)

C25_NameByIdStringThenNumber ==
    \A i \in 1..Len(classified) :
        classified[i] # Nothing =>
            classified[i].from_id = NameByIdThenNumber(packet)

C25_NamedByIdStringRecord ==
    /\ IsText(packet) /\ packet.fromId = SenderId /\ packet.from = SenderNum
    /\ nodeNames.byId.long = "absent" /\ nodeNames.byId.short = "ALB"
    /\ nodeNames.byNum.long = "Node Seven"
    /\ Len(classified) >= 1
    /\ classified[1].from_id = "ALB"

\* C26: every classification of the packet against the node database
\* gives the same result, timestamp included, and no classification
\* changes the node database or the connection state.
ClassifyStep ==
    classified' # classified

C26_ClassifyDeterministic ==
    /\ [](\A i, j \in 1..Len(classified) : classified[i] = classified[j])
    /\ [][ClassifyStep =>
            UNCHANGED <<nodeNames, nodeCache, connVars, client, running>>]_vars

\* What does hold: the same, for packets that carry a receive time.
TimedPacketsDeterministic ==
    packet.rxTime # NoRxTime =>
        \A i, j \in 1..Len(classified) : classified[i] = classified[j]

\* C27: whatever integer RECONNECT_DELAY is set to, the loaded
\* configuration holds a delay of at least one second: the value itself
\* when it is 1 or more, 5 when it is below 1 or unset; the worker's backoff
\* sleep is of that length and never raises.
ConfigLoaded ==
    spc # "load_config"

C27_DelayAtLeastOneSecond ==
    /\ ConfigLoaded =>
        /\ reconnect_delay >= 1
        /\ (envDelay # <<>> /\ envDelay[1] >= 1) => reconnect_delay = envDelay[1]
        /\ (envDelay = <<>> \/ envDelay[1] < 1) => reconnect_delay = 5
    /\ wpc = "backoff_sleep" => ConfigLoaded /\ reconnect_delay >= 1
    /\ wpc # "raised"

C27_BackoffAfterZeroDelay ==
    /\ envDelay = <<0>> /\ reconnect_delay = 5
    /\ wpc = "backoff_sleep" /\ nBackoff >= 1

\* C28: the worker enters connect() only with a client it has just
\* constructed; whenever it is between the finally clause of one attempt
\* and the connect() of the next (backoff test, backoff sleep, loop test,
\* construction, or out of the loop), every client it has constructed is
\* disconnected and holds no interface; at no time do two clients hold an
\* open interface.
BetweenAttempts ==
    wpc \in {"backoff_test", "backoff_sleep", "loop_test", "create", "done"}

Disconnected(c) ==
    iface[c] = "none" /\ ~connected[c]

OpenHandles ==
    {c \in Clients : iface[c] = "open"}

WorkerCloses(c) ==
    wpc = "fin_check" /\ wpc' = "fin_clear" /\ client = c

ShutdownCloses(c) ==
    \E s \in ShutdownIds :
        sh[s] = "disc" /\ sh'[s] = "disc_clear" /\ client = c

NoShutdownDisconnecting ==
    \A s \in ShutdownIds : sh[s] # "disc_clear"

BothDisconnectsReturned ==
    /\ BetweenAttempts /\ client # 0
    /\ NoShutdownDisconnecting
    /\ \E s \in ShutdownIds : sh[s] \in {"stop", "done"}

C29_CloseCalledOnce ==
    /\ [][\A c \in Clients :
            (WorkerCloses(c) \/ ShutdownCloses(c)) => iface[c] = "open"]_vars
    /\ [](BothDisconnectsReturned => Disconnected(client))

\* What does hold: after both calls the client is disconnected.
BothDisconnectsLeaveClientCleared ==
    BothDisconnectsReturned => Disconnected(client)

WorkerSchedulesNotice ==
    wpc = "notify" /\ nNotices' = nNotices + 1

C31_NoNoticeAfterFlagCleared ==
    [][everCleared => ~WorkerSchedulesNotice]_vars

\* The same with the flag still false when the notice is scheduled, that
\* is, without start() having written it True again (main.py:89).
NoNoticeWhileFlagFalse ==
    [][(everCleared /\ ~running) => ~WorkerSchedulesNotice]_vars

\* What does hold: the polling loop left with the flag false takes the
\* break at main.py:152-153 and schedules nothing.
BreakSchedulesNothing ==
    [][(wpc = "after_poll" /\ ~running /\ wpc' # wpc) =>
            (exiting' /\ nNotices' = nNotices /\ queue' = queue)]_vars

\* C32: in every run at most one invocation of shutdown() executes its
\* sequence (main.py:195-203), also when startup fails and when a signal
\* arrives during startup.
Executed(s) ==
    sh[s] \notin {"idle", "pending"}

ShutdownsExecuted ==
    Cardinality({s \in ShutdownIds : Executed(s)})

C32_ShutdownRunsAtMostOnce ==
    ShutdownsExecuted <= 1

\* The same for the runs in which no signal arrives at all.
NoSignalYet ==
    \A s \in Signals : sh[s] = "idle"

OneShutdownWithoutSignal ==
    NoSignalYet => ShutdownsExecuted <= 1

\* What does hold: the shutdown() main() calls after a failed start()
\* finds the flag false, no device client and the bot closed, and changes
\* none of them.
MainShutdownStep ==
    sh'[MainId] # sh[MainId] /\ sh[MainId] # "idle"

SecondShutdownChangesNothing ==
    [][MainShutdownStep =>
            /\ ~running /\ ~running'
            /\ client = 0
            /\ UNCHANGED <<connVars, wpc>>
            /\ (sh[MainId] = "stop" => botClosed)]_vars

=============================================================================
